---------------------------- MODULE Spec2Model ----------------------------
(***************************************************************************)
(* Resilience core of the chatBot backend.                                 *)
(*                                                                         *)
(* CircuitBreaker (backend/app/core/circuit_breaker.py): the state machine *)
(* guarding calls to an unreliable operation, here with several calls in   *)
(* flight on one breaker (asyncio tasks interleave at the await of the     *)
(* wrapped operation; the sections under the breaker's lock hold no await  *)
(* and are atomic).                                                        *)
(*                                                                         *)
(* Spec          one CircuitBreaker instance, its CircuitBreakerConfig     *)
(*               drawn from ConfigSpace, clock ticking by one.             *)
(* SpecServices  the three breakers the services create with               *)
(*               @circuit_breaker(...), with the configurations of the     *)
(*               source, clock ticking by ClockStep.                       *)
(*                                                                         *)
(* UltraFastCache (backend/app/core/cache.py): memory_cache in front of    *)
(* Redis, calls of get and set interleaving at their Redis command.        *)
(*                                                                         *)
(* SpecCache     one cache, with or without a Redis client, its callers    *)
(*               getting, setting and invalidating the keys of Keys and    *)
(*               running initialize_redis, clock ticking by CacheStep.     *)
(* SpecKeys      cache_result deriving the keys of two calls of one        *)
(*               wrapped operation.                                        *)
(*                                                                         *)
(* UltraFastVectorService.ultra_fast_search                                *)
(* (backend/app/services/vector_service.py) under its two decorators.      *)
(*                                                                         *)
(* SpecSearch    the service after initialize() in any state of its index  *)
(*               and of the Chroma collection, its callers searching.      *)
(* SpecStrategies  one search strategy applied to the vectors held.        *)
(* SpecMemo      the two decorators of ultra_fast_search around a function *)
(*               whose arguments are JSON values, memory tier only.        *)
(*                                                                         *)
(* UltraFastOpenAIService (backend/app/services/openai_service.py).        *)
(*                                                                         *)
(* SpecProvider  callers of create_embedding_ultra_fast and of             *)
(*               create_completion_ultra_fast under their decorators.      *)
(* SpecBatch     batch_create_embeddings applied to a list of texts, some  *)
(*               of its batches failing.                                   *)
(*                                                                         *)
(* ConnectionManager and websocket_endpoint (backend/app/api/websocket.py).*)
(*                                                                         *)
(* SpecWebSocket the handlers of the sockets of WebSockets, each between   *)
(*               its connect and its end.                                  *)
(***************************************************************************)
EXTENDS Integers, FiniteSets, Sequences, TLC

VARIABLES
    config,      \* breaker id -> CircuitBreakerConfig (self.config)
    breakers,    \* breaker id -> [failure_count, success_count, last_failure_time, state]
    in_flight,   \* breaker id -> number of calls awaiting func(*args, **kwargs) (line 43)
    now,         \* time.time()
    probes,      \* history: breaker id -> calls in flight that made the OPEN -> HALF_OPEN step
    streak,      \* history: breaker id -> counted failures observed since the last success
    half_streak, \* history: breaker id -> successes observed in the current half-open
                 \*          period since its last counted failure
    last,        \* history: the step taken last [op, b, kind, probe]
    requests,    \* history: the calls received so far
    memory_cache,  \* UltraFastCache.memory_cache: key -> [data, expires]
    redis_client,  \* UltraFastCache.redis_client: "None" or "client"
    redis_store,   \* the keys of the Redis server: key -> [data, expires]
    cache_stats,   \* UltraFastCache.cache_stats: [hits, misses, total_requests]
    pending_gets,  \* calls of get awaiting redis_client.get (cache.py line 57)
    pending_sets,  \* calls of set awaiting redis_client.setex (cache.py line 88)
    pending_invs,  \* calls of invalidate_pattern awaiting redis_client.keys or
                   \* redis_client.delete (cache.py lines 105, 107)
    redis_probe,   \* "pinging" while initialize_redis awaits ping (line 30)
    probe_failed,  \* history: the latest initialize_redis ended with a failed probe
    tier2_down,    \* history: no Redis command of get, set or invalidate_pattern
                   \*          has succeeded so far
    invalidated,   \* history: key -> an invalidate_pattern matching the key has
                   \*          returned and the key was not set since
    last_set,      \* history: key -> the latest set of the key [data, at, ttl]
    get_result,    \* history: what the get that returned last returned
    service,       \* UltraFastVectorService: [index_loaded, memory_index,
                   \*                          qa_embeddings, qa_metadata]
    backend,       \* what the Chroma collection does when it is queried
    search_result, \* history: how the search that completed last ended
    key_run,       \* two calls of one operation wrapped by cache_result and the
                   \* keys the wrapper derived for them
    strategy_run,  \* a search strategy applied to the data of the service: what
                   \* it was given and the results it returned
    embed_result,  \* history: how the call of create_embedding_ultra_fast that
                   \* completed last ended
    batch_run,     \* batch_create_embeddings applied to a list of texts: what it
                   \* was given, the batches that failed, what it returned
    memo_pending,  \* calls of an operation wrapped by circuit_breaker and
                   \* cache_result that await the operation itself
    memo_run,      \* history: how the call of that operation that completed last
                   \* ended
    active_connections, \* ConnectionManager.active_connections
    connection_stats,   \* ConnectionManager.connection_stats
    handlers       \* websocket -> where its websocket_endpoint coroutine is

inv_vars == <<pending_invs, redis_probe, probe_failed, invalidated>>

cache_vars == <<memory_cache, redis_client, redis_store, cache_stats,
                pending_gets, pending_sets, pending_invs, redis_probe, probe_failed,
                invalidated, tier2_down, last_set, get_result>>

search_vars == <<service, backend, search_result>>

memo_vars == <<memo_pending, memo_run>>

ws_vars == <<active_connections, connection_stats, handlers>>

unit_vars == <<key_run, strategy_run, embed_result, batch_run, memo_vars, ws_vars>>

vars == <<config, breakers, in_flight, now, probes, streak, half_streak, last, requests,
          cache_vars, search_vars, unit_vars>>

---------------------------------------------------------------------------
(* Bounds of the model.                                                    *)

MaxThreshold == 2      \* failure_threshold and success_threshold range over 1..MaxThreshold
MaxRecovery == 2       \* recovery_timeout ranges over 1..MaxRecovery
MaxTime == 5           \* the clock stops at MaxTime
MaxInFlight == 2       \* calls in flight at one time
MaxFailures == 4       \* failure_count is not driven past MaxFailures
MaxServiceTime == 91   \* the clock of SpecServices stops at MaxServiceTime
ClockStep == 30        \* the clock of SpecServices advances by ClockStep seconds
MaxRequests == 5       \* the calls the services receive in SpecServices

---------------------------------------------------------------------------
(* CircuitState, circuit_breaker.py lines 11-14.                           *)

CLOSED == "closed"
OPEN == "open"
HALF_OPEN == "half_open"

CircuitState == {CLOSED, OPEN, HALF_OPEN}

(* The kinds of exception a wrapped operation raises, and the class each   *)
(* derives from: `except self.config.expected_exception` (line 46) catches *)
(* an exception that is an instance of one of the configured classes.      *)
Kinds == {"APIError", "RateLimitError", "APIConnectionError", "ValueError",
          "CancelledError"}

Parent(c) ==
    CASE c = "RateLimitError" -> "APIError"
      [] c = "APIConnectionError" -> "APIError"
      [] c = "APIError" -> "Exception"
      [] c = "ValueError" -> "Exception"
      [] c = "TypeError" -> "Exception"
      [] c = "Exception" -> "BaseException"
      [] c = "CancelledError" -> "BaseException"
      [] OTHER -> "BaseException"

RECURSIVE IsSubclass(_, _)
IsSubclass(c, d) ==
    IF c = d THEN TRUE
    ELSE IF c = "BaseException" THEN FALSE
    ELSE IsSubclass(Parent(c), d)

(* except self.config.expected_exception as e (line 46)                    *)
CaughtAny(cfg, kind) == TRUE
Caught(cfg, kind) == \E c \in cfg.expected_exception : IsSubclass(kind, c)

(* CircuitBreakerConfig, lines 16-21.                                      *)
DefaultSuccessThreshold == 3

ConfigSpace ==
    [failure_threshold : 1..MaxThreshold,
     recovery_timeout : 1..MaxRecovery,
     expected_exception : {{"Exception"}, {"APIError", "RateLimitError"}},
     success_threshold : 1..MaxThreshold]

(* CircuitBreaker.__init__, lines 24-30.                                   *)
NewBreaker ==
    [failure_count |-> 0, success_count |-> 0, last_failure_time |-> 0,
     state |-> CLOSED]

---------------------------------------------------------------------------
(* CircuitBreaker.call, lines 33-40: the section under the lock. The       *)
(* result is the breaker after it and whether the call goes on to invoke   *)
(* the operation (admit) or raises "Circuit breaker is OPEN".              *)

CallGateNoRaise(cfg, br, t) ==
    IF br.state = OPEN
    THEN IF t - br.last_failure_time >= cfg.recovery_timeout
         THEN [admit |-> TRUE,
               br |-> [br EXCEPT !.state = HALF_OPEN, !.success_count = 0]]
         ELSE [admit |-> TRUE, br |-> br]
    ELSE [admit |-> TRUE, br |-> br]

CallGateKeepCount(cfg, br, t) ==
    IF br.state = OPEN
    THEN IF t - br.last_failure_time >= cfg.recovery_timeout
         THEN [admit |-> TRUE, br |-> [br EXCEPT !.state = HALF_OPEN]]
         ELSE [admit |-> FALSE, br |-> br]
    ELSE [admit |-> TRUE, br |-> br]

CallGate(cfg, br, t) ==
    IF br.state = OPEN
    THEN IF t - br.last_failure_time >= cfg.recovery_timeout
         THEN [admit |-> TRUE,
               br |-> [br EXCEPT !.state = HALF_OPEN, !.success_count = 0]]
         ELSE [admit |-> FALSE, br |-> br]
    ELSE [admit |-> TRUE, br |-> br]

(* CircuitBreaker._on_success, lines 50-57.                                *)
OnSuccessAnyState(cfg, br) ==
    LET n == br.success_count + 1 IN
    IF n >= cfg.success_threshold
    THEN [br EXCEPT !.failure_count = 0, !.success_count = n, !.state = CLOSED]
    ELSE [br EXCEPT !.failure_count = 0, !.success_count = n]

OnSuccessLate(cfg, br) ==
    IF br.state = HALF_OPEN
    THEN LET n == br.success_count + 1 IN
         IF n > cfg.success_threshold
         THEN [br EXCEPT !.failure_count = 0, !.success_count = n, !.state = CLOSED]
         ELSE [br EXCEPT !.failure_count = 0, !.success_count = n]
    ELSE [br EXCEPT !.failure_count = 0]

OnSuccessKeepFailures(cfg, br) ==
    IF br.state = HALF_OPEN
    THEN LET n == br.success_count + 1 IN
         IF n >= cfg.success_threshold
         THEN [br EXCEPT !.failure_count = 0, !.success_count = n, !.state = CLOSED]
         ELSE [br EXCEPT !.failure_count = 0, !.success_count = n]
    ELSE br

OnSuccess(cfg, br) ==
    IF br.state = HALF_OPEN
    THEN LET n == br.success_count + 1 IN
         IF n >= cfg.success_threshold
         THEN [br EXCEPT !.failure_count = 0, !.success_count = n, !.state = CLOSED]
         ELSE [br EXCEPT !.failure_count = 0, !.success_count = n]
    ELSE [br EXCEPT !.failure_count = 0]

(* CircuitBreaker._on_failure, lines 59-66.                                *)
OnFailureCountOnly(cfg, br, t) ==
    [br EXCEPT !.failure_count = @ + 1, !.last_failure_time = t]

OnFailureLate(cfg, br, t) ==
    LET n == br.failure_count + 1 IN
    IF n > cfg.failure_threshold
    THEN [br EXCEPT !.failure_count = n, !.last_failure_time = t, !.state = OPEN]
    ELSE [br EXCEPT !.failure_count = n, !.last_failure_time = t]

OnFailure(cfg, br, t) ==
    LET n == br.failure_count + 1 IN
    IF n >= cfg.failure_threshold
    THEN [br EXCEPT !.failure_count = n, !.last_failure_time = t, !.state = OPEN]
    ELSE [br EXCEPT !.failure_count = n, !.last_failure_time = t]

---------------------------------------------------------------------------
(* The steps of a call through breaker b.                                  *)

(* What a step did: op is "init", "tick", "rejected" (the call raised the   *)
(* breaker-open error), "invoked" or "probe" (the operation was invoked,   *)
(* for "probe" after the OPEN -> HALF_OPEN step), "success", "failure" (the *)
(* operation raised a counted kind) or "propagated" (it raised another     *)
(* kind); b is the breaker or decorated operation called.                  *)
Event(op, b, kind, probe) == [op |-> op, b |-> b, kind |-> kind, probe |-> probe]

RECURSIVE SumOver(_, _)
SumOver(f, S) ==
    IF S = {} THEN 0
    ELSE LET x == CHOOSE x \in S : TRUE IN f[x] + SumOver(f, S \ {x})

(* The calls awaiting their operation, over all breakers.                  *)
InFlightTotal == SumOver(in_flight, DOMAIN in_flight)

(* call, lines 32-43: the gate, and on admission the operation is invoked  *)
(* and the call waits for it.                                              *)
Admission(b, who) ==
    LET gate == CallGate(config[b], breakers[b], now)
        opens == breakers[b].state = OPEN /\ gate.admit
    IN  /\ gate.admit => InFlightTotal < MaxInFlight
        /\ breakers' = [breakers EXCEPT ![b] = gate.br]
        /\ in_flight' = [in_flight EXCEPT ![b] = IF gate.admit THEN @ + 1 ELSE @]
        /\ probes' = [probes EXCEPT ![b] = IF opens THEN @ + 1 ELSE @]
        /\ half_streak' = [half_streak EXCEPT ![b] = IF opens THEN 0 ELSE @]
        /\ last' = Event(IF ~gate.admit THEN "rejected"
                         ELSE IF opens THEN "probe" ELSE "invoked",
                         who, "none", opens)
        /\ UNCHANGED <<config, now, streak, cache_vars, search_vars, unit_vars>>

CallBegin(b) == Admission(b, b) /\ UNCHANGED requests

(* The completing call is one that made the OPEN -> HALF_OPEN step (probe) *)
(* or one of the others in flight.                                         *)
Completes(b, probe) ==
    /\ IF probe THEN probes[b] > 0 ELSE in_flight[b] > probes[b]
    /\ in_flight' = [in_flight EXCEPT ![b] = @ - 1]
    /\ probes' = [probes EXCEPT ![b] = IF probe THEN @ - 1 ELSE @]

(* call, lines 43-45: the operation returns; _on_success; return result.   *)
OpReturns(b, who, probe) ==
    /\ Completes(b, probe)
    /\ breakers' = [breakers EXCEPT ![b] = OnSuccess(config[b], @)]
    /\ streak' = [streak EXCEPT ![b] = 0]
    /\ half_streak' = [half_streak EXCEPT
                         ![b] = IF breakers[b].state = HALF_OPEN THEN @ + 1 ELSE @]
    /\ last' = Event("success", who, "none", probe)
    /\ UNCHANGED <<config, now, requests, cache_vars, search_vars, unit_vars>>

(* call, lines 46-48: the operation raises; a configured kind is counted   *)
(* by _on_failure and raised again, any other kind passes through.         *)
OpRaises(b, who, kind, probe) ==
    IF Caught(config[b], kind)
    THEN /\ breakers[b].failure_count < MaxFailures
         /\ Completes(b, probe)
         /\ breakers' = [breakers EXCEPT ![b] = OnFailure(config[b], @, now)]
         /\ streak' = [streak EXCEPT ![b] = @ + 1]
         /\ half_streak' = [half_streak EXCEPT ![b] = 0]
         /\ last' = Event("failure", who, kind, probe)
         /\ UNCHANGED <<config, now, requests, cache_vars, search_vars, unit_vars>>
    ELSE /\ Completes(b, probe)
         /\ last' = Event("propagated", who, kind, probe)
         /\ UNCHANGED <<config, breakers, now, streak, half_streak, requests,
                        cache_vars, search_vars, unit_vars>>

(* Time passes.                                                            *)
Tick(d, limit) ==
    /\ now + d <= limit
    /\ now' = now + d
    /\ last' = Event("tick", "none", "none", FALSE)
    /\ UNCHANGED <<config, breakers, in_flight, probes, streak, half_streak, requests,
                   cache_vars, search_vars, unit_vars>>

---------------------------------------------------------------------------
(* The cache and the vector service as their constructors leave them.      *)

(* A dict without keys.                                                    *)
EmptyDict == [k \in {} |-> 0]

(* d[k] = v, del d[k].                                                     *)
Put(d, k, v) == [x \in DOMAIN d \cup {k} |-> IF x = k THEN v ELSE d[x]]
Drop(d, k) == [x \in DOMAIN d \ {k} |-> d[x]]

(* The keys the callers of the cache use.                                  *)
Keys == {"k1"}

NoSet == [data |-> "None", at |-> 0, ttl |-> 0]
NoGet == [key |-> "none", value |-> "None", at |-> 0, tier |-> "none", seen |-> NoSet,
          inv |-> FALSE]

(* UltraFastCache.__init__, cache.py lines 14-17.                          *)
CacheNew ==
    /\ memory_cache = EmptyDict
    /\ redis_store = EmptyDict
    /\ cache_stats = [hits |-> 0, misses |-> 0, total_requests |-> 0]
    /\ pending_gets = {}
    /\ pending_sets = {}
    /\ pending_invs = {}
    /\ redis_probe = "idle"
    /\ probe_failed = FALSE
    /\ tier2_down = TRUE
    /\ invalidated = [k \in Keys |-> FALSE]
    /\ last_set = [k \in Keys |-> NoSet]
    /\ get_result = NoGet

NoSearch == [query |-> "none", top_k |-> 0, outcome |-> "none", value |-> <<>>,
             invoked |-> {}]

(* memory_index is None, or a FAISS index holding so many vectors;         *)
(* qa_embeddings and qa_metadata are lists of so many elements.            *)
NoIndex == -1

(* UltraFastVectorService.__init__, vector_service.py lines 18-24: no      *)
(* index, no embeddings, no metadata.                                      *)
ServiceNew ==
    [index_loaded |-> FALSE, memory_index |-> NoIndex, qa_embeddings |-> 0,
     qa_metadata |-> 0]

---------------------------------------------------------------------------
(* One CircuitBreaker with any configuration of ConfigSpace.               *)

Instances == {"breaker"}

InitOver(ids, cfgs) ==
    /\ config \in cfgs
    /\ breakers = [b \in ids |-> NewBreaker]
    /\ in_flight = [b \in ids |-> 0]
    /\ probes = [b \in ids |-> 0]
    /\ streak = [b \in ids |-> 0]
    /\ half_streak = [b \in ids |-> 0]
    /\ now = 1
    /\ last = Event("init", "none", "none", FALSE)
    /\ requests = 0

(* The cache and the vector service constructed and not used.              *)
NoKeyRun == [prefix |-> "none", bound |-> "none", a |-> <<>>, b |-> <<>>,
             key_a |-> <<>>, key_b |-> <<>>]
NoStrategyRun == [strategy |-> "none", given |-> <<>>, metadata |-> 0, top_k |-> 0,
                  results |-> <<>>]
NoEmbed == [op |-> "none", text |-> "none", outcome |-> "none", kind |-> "none"]

NoBatchRun == [texts |-> 0, failed |-> {}, embeddings |-> <<>>, done |-> FALSE]
NoMemo == [q |-> "none", outcome |-> "none", value |-> <<>>, source |-> "none"]

(* The sockets the server is handed and the client_id of their paths.      *)
WebSockets == {"w1", "w2"}
ClientIds == {"c1", "c2"}

NoHandler == [at |-> "none", client_id |-> "none"]

UnitNew ==
    /\ key_run = NoKeyRun
    /\ strategy_run = NoStrategyRun
    /\ embed_result = NoEmbed
    /\ batch_run = NoBatchRun
    /\ memo_pending = {}
    /\ memo_run = NoMemo
    /\ active_connections = <<>>
    /\ connection_stats = EmptyDict
    /\ handlers = [w \in WebSockets |-> NoHandler]

Unused ==
    /\ CacheNew
    /\ UnitNew
    /\ redis_client = "None"
    /\ service = ServiceNew
    /\ backend = "results"
    /\ search_result = NoSearch

Init == InitOver(Instances, [Instances -> ConfigSpace]) /\ Unused

Next ==
    \/ \E b \in DOMAIN breakers : CallBegin(b)
    \/ \E b \in DOMAIN breakers, probe \in BOOLEAN : OpReturns(b, b, probe)
    \/ \E b \in DOMAIN breakers, kind \in Kinds, probe \in BOOLEAN :
          OpRaises(b, b, kind, probe)
    \/ Tick(1, MaxTime)

Spec == Init /\ [][Next]_vars

---------------------------------------------------------------------------
(* The breakers of the services: circuit_breaker(config) (lines 68-79)     *)
(* builds one CircuitBreaker per decorated operation.                      *)

Operations == {"embedding", "completion", "vector_search"}

(* breaker = CircuitBreaker(config), line 72: the breaker guarding op.     *)
BreakerOfShared(op) == "embedding"
BreakerOf(op) == op

(* openai_service.py lines 48-52 and 158-162, vector_service.py line 73.   *)
ServiceConfig(op) ==
    CASE op = "embedding" ->
           [failure_threshold |-> 3, recovery_timeout |-> 30,
            expected_exception |-> {"APIError", "RateLimitError", "APIConnectionError"},
            success_threshold |-> DefaultSuccessThreshold]
      [] op = "completion" ->
           [failure_threshold |-> 2, recovery_timeout |-> 60,
            expected_exception |-> {"APIError", "RateLimitError"},
            success_threshold |-> DefaultSuccessThreshold]
      [] op = "vector_search" ->
           [failure_threshold |-> 3, recovery_timeout |-> 30,
            expected_exception |-> {"Exception"},
            success_threshold |-> DefaultSuccessThreshold]

InitBreakers == InitOver(Operations, {[op \in Operations |-> ServiceConfig(op)]})

InitServices == InitBreakers /\ Unused

(* A call of a decorated operation goes through that operation's breaker.  *)
ServiceCall(op) ==
    /\ requests < MaxRequests
    /\ Admission(BreakerOf(op), op)
    /\ requests' = requests + 1
ServiceReturns(op, probe) == OpReturns(BreakerOf(op), op, probe)
ServiceRaises(op, kind, probe) == OpRaises(BreakerOf(op), op, kind, probe)

NextServices ==
    \/ \E op \in Operations : ServiceCall(op)
    \/ \E op \in Operations, probe \in BOOLEAN : ServiceReturns(op, probe)
    \/ \E op \in Operations, kind \in Kinds, probe \in BOOLEAN :
          ServiceRaises(op, kind, probe)
    \/ Tick(ClockStep, MaxServiceTime)

SpecServices == InitServices /\ [][NextServices]_vars

---------------------------------------------------------------------------
(* UltraFastCache (backend/app/core/cache.py): the process-local dict in   *)
(* front of Redis.  get and set run on the event loop; each suspends only  *)
(* at its one Redis command, so the code before and after it is atomic and *)
(* other calls of get and set interleave at the await.                     *)

LocalCap == 300        \* seconds an entry stays in memory_cache at most

ShortTtl == 100        \* a ttl below LocalCap
LongTtl == 400         \* a ttl above LocalCap
CacheStep == 100       \* the clock of SpecCache advances by CacheStep seconds
MaxCacheTime == 401    \* the clock of SpecCache stops at MaxCacheTime
MaxCacheCalls == 4     \* the calls of get and set in SpecCache
MaxPending == 1        \* calls of get, and of set, awaiting Redis at one time

Ttls == {ShortTtl, LongTtl}

(* The values cached: JSON documents (lists of results, lists of floats,   *)
(* strings), which json.loads(json.dumps(v)) gives back unchanged.         *)
Data == {"A", "B"}

(* json.dumps(data), cache.py line 89, and json.loads, line 61: Redis      *)
(* holds the text of the document.                                         *)
JsonDumps(data) == <<"json", data>>
JsonLoads(text) == text[2]

Min(a, b) == IF a < b THEN a ELSE b

(* The entry of memory_cache is there and `expires > time.time()`, line 47. *)
MemoryFresh(k) == k \in DOMAIN memory_cache /\ memory_cache[k].expires > now

(* Redis has the key: SETEX makes it expire ttl seconds after the write.   *)
RedisHas(k) == k \in DOMAIN redis_store /\ redis_store[k].expires > now

(* The step taken is a get returning: what it returned, when it began, and *)
(* the latest set of its key at that time.                                 *)
Returned(k, value, at, tier, seen, inv) ==
    /\ get_result' = [key |-> k, value |-> value, at |-> at, tier |-> tier, seen |-> seen,
                      inv |-> inv]
    /\ last' = Event("get", k, "none", FALSE)

Count(field) == [cache_stats EXCEPT ![field] = @ + 1]

(* get, lines 41-55 and 75-76: the request is counted; a fresh entry of    *)
(* memory_cache is a hit; an expired one is deleted; then Redis is asked   *)
(* if there is a client, and the call is a miss if there is none.          *)
CacheGet(k) ==
    LET counted == [cache_stats EXCEPT !.total_requests = @ + 1]
    IN  /\ requests < MaxCacheCalls
        /\ requests' = requests + 1
        /\ UNCHANGED <<redis_client, redis_store, pending_sets, last_set, inv_vars,
                       tier2_down>>
        /\ IF MemoryFresh(k)
           THEN /\ cache_stats' = [counted EXCEPT !.hits = @ + 1]
                /\ Returned(k, memory_cache[k].data, now, "memory", last_set[k], invalidated[k])
                /\ UNCHANGED <<memory_cache, pending_gets>>
           ELSE /\ memory_cache' = Drop(memory_cache, k)
                /\ IF redis_client = "client"
                   THEN /\ Cardinality(pending_gets) < MaxPending
                        /\ pending_gets' = pending_gets \cup
                               {[id |-> counted.total_requests, key |-> k, at |-> now,
                                 seen |-> last_set[k], inv |-> invalidated[k]]}
                        /\ cache_stats' = counted
                        /\ last' = Event("get_redis", k, "none", FALSE)
                        /\ UNCHANGED get_result
                   ELSE /\ cache_stats' = [counted EXCEPT !.misses = @ + 1]
                        /\ Returned(k, "None", now, "none", last_set[k], invalidated[k])
                        /\ UNCHANGED pending_gets

(* Variant of the resumption of get: a Redis error is not counted as a     *)
(* miss.                                                                   *)
CacheGetReplyNoCount(r, reply) ==
    /\ r \in pending_gets
    /\ UNCHANGED requests
    /\ pending_gets' = pending_gets \ {r}
    /\ tier2_down' = (tier2_down /\ reply # "ok")
    /\ UNCHANGED <<redis_client, redis_store, pending_sets, last_set, inv_vars>>
    /\ IF reply = "ok" /\ RedisHas(r.key)
       THEN LET data == JsonLoads(redis_store[r.key].data)
            IN  /\ memory_cache' = Put(memory_cache, r.key,
                                       [data |-> data, expires |-> now + LocalCap])
                /\ cache_stats' = Count("hits")
                /\ Returned(r.key, data, r.at, "redis", r.seen, r.inv)
       ELSE /\ cache_stats' = IF reply = "ok" THEN Count("misses") ELSE cache_stats
            /\ Returned(r.key, "None", r.at, "none", r.seen, r.inv)
            /\ UNCHANGED memory_cache

(* Variant of the resumption of get: a value found in Redis is returned    *)
(* and is not stored in memory_cache.                                      *)
CacheGetReplyNoPromote(r, reply) ==
    /\ r \in pending_gets
    /\ UNCHANGED requests
    /\ pending_gets' = pending_gets \ {r}
    /\ tier2_down' = (tier2_down /\ reply # "ok")
    /\ UNCHANGED <<redis_client, redis_store, pending_sets, last_set, memory_cache,
                   inv_vars>>
    /\ IF reply = "ok" /\ RedisHas(r.key)
       THEN /\ cache_stats' = Count("hits")
            /\ Returned(r.key, JsonLoads(redis_store[r.key].data), r.at, "redis", r.seen,
                        r.inv)
       ELSE /\ cache_stats' = Count("misses")
            /\ Returned(r.key, "None", r.at, "none", r.seen, r.inv)

(* get, lines 57-76: redis_client.get answers within 0.1 s (reply "ok") or *)
(* wait_for times out or the command fails (reply "error").  A value found *)
(* is decoded, stored in memory_cache for LocalCap seconds and returned as *)
(* a hit; anything else is a miss.                                         *)
CacheGetReply(r, reply) ==
    /\ r \in pending_gets
    /\ UNCHANGED requests
    /\ pending_gets' = pending_gets \ {r}
    /\ tier2_down' = (tier2_down /\ reply # "ok")
    /\ UNCHANGED <<redis_client, redis_store, pending_sets, last_set, inv_vars>>
    /\ IF reply = "ok" /\ RedisHas(r.key)
       THEN LET data == JsonLoads(redis_store[r.key].data)
            IN  /\ memory_cache' = Put(memory_cache, r.key,
                                       [data |-> data, expires |-> now + LocalCap])
                /\ cache_stats' = Count("hits")
                /\ Returned(r.key, data, r.at, "redis", r.seen, r.inv)
       ELSE /\ cache_stats' = Count("misses")
            /\ Returned(r.key, "None", r.at, "none", r.seen, r.inv)
            /\ UNCHANGED memory_cache

(* set, lines 78-86: the entry is written to memory_cache for              *)
(* min(ttl, LocalCap) seconds; with a client the call goes on to SETEX.    *)
CacheSet(k, data, ttl) ==
    /\ requests < MaxCacheCalls
    /\ requests' = requests + 1
    /\ memory_cache' = Put(memory_cache, k,
                           [data |-> data, expires |-> now + Min(ttl, LocalCap)])
    /\ last_set' = [last_set EXCEPT ![k] = [data |-> data, at |-> now, ttl |-> ttl]]
    /\ IF redis_client = "client"
       THEN /\ Cardinality(pending_sets) < MaxPending
            /\ pending_sets' = pending_sets \cup {[key |-> k, data |-> data, ttl |-> ttl]}
       ELSE UNCHANGED pending_sets
    /\ invalidated' = [invalidated EXCEPT ![k] = FALSE]
    /\ pending_invs' = {[i EXCEPT !.reset = @ \cup {k}] : i \in pending_invs}
    /\ last' = Event("set", k, "none", FALSE)
    /\ UNCHANGED <<redis_client, redis_store, cache_stats, pending_gets, get_result,
                   redis_probe, probe_failed, tier2_down>>

(* Variant of the resumption of set: a failed write to Redis takes the     *)
(* entry out of memory_cache again.                                        *)
CacheSetReplyUndo(w, reply) ==
    /\ w \in pending_sets
    /\ UNCHANGED requests
    /\ pending_sets' = pending_sets \ {w}
    /\ tier2_down' = (tier2_down /\ reply # "ok")
    /\ redis_store' =
          IF reply = "ok"
          THEN Put(redis_store, w.key,
                   [data |-> JsonDumps(w.data), expires |-> now + w.ttl])
          ELSE redis_store
    /\ memory_cache' = IF reply = "ok" THEN memory_cache ELSE Drop(memory_cache, w.key)
    /\ last' = Event("set_redis", w.key, "none", FALSE)
    /\ UNCHANGED <<redis_client, cache_stats, pending_gets, last_set, get_result,
                   inv_vars>>

(* set, lines 86-94: setex(key, ttl, json.dumps(data)) is done within      *)
(* 0.1 s (reply "ok"), or it times out or fails and the error is logged.   *)
CacheSetReply(w, reply) ==
    /\ w \in pending_sets
    /\ UNCHANGED requests
    /\ pending_sets' = pending_sets \ {w}
    /\ tier2_down' = (tier2_down /\ reply # "ok")
    /\ redis_store' =
          IF reply = "ok"
          THEN Put(redis_store, w.key,
                   [data |-> JsonDumps(w.data), expires |-> now + w.ttl])
          ELSE redis_store
    /\ last' = Event("set_redis", w.key, "none", FALSE)
    /\ UNCHANGED <<memory_cache, redis_client, cache_stats, pending_gets, last_set,
                   get_result, inv_vars>>

(* The patterns given to invalidate_pattern, and `pattern in k` of line 98 *)
(* (a substring test) over the keys of the model; the glob f"*{pattern}*"  *)
(* of line 105 selects the same keys, the patterns holding no glob         *)
(* character.                                                              *)
Patterns == {"k", "x"}

Matches(pattern, k) == <<pattern, k>> \in {<<"k", "k1">>}

(* invalidate_pattern returns: history of the keys it was to remove, those *)
(* set while it ran excepted.                                              *)
InvReturns(pattern, reset) ==
    /\ invalidated' = [k \in Keys |->
                          IF Matches(pattern, k) /\ k \notin reset
                          THEN TRUE ELSE invalidated[k]]
    /\ last' = Event("invalidate", pattern, "none", FALSE)

(* Variant of invalidate_pattern: memory_cache is left alone.              *)
CacheInvalidateRedisOnly(pattern) ==
    /\ requests < MaxCacheCalls
    /\ requests' = requests + 1
    /\ memory_cache' = memory_cache
    /\ IF redis_client = "client"
       THEN /\ Cardinality(pending_invs) < MaxPending
            /\ pending_invs' = pending_invs \cup
                   {[pattern |-> pattern, phase |-> "keys", keys |-> {}, reset |-> {}]}
            /\ last' = Event("invalidate_begin", pattern, "none", FALSE)
            /\ UNCHANGED invalidated
       ELSE /\ UNCHANGED pending_invs
            /\ InvReturns(pattern, {})
    /\ UNCHANGED <<redis_client, redis_store, cache_stats, pending_gets, pending_sets,
                   redis_probe, probe_failed, tier2_down, last_set, get_result>>

(* invalidate_pattern, lines 96-105: the matching keys leave memory_cache  *)
(* at once; with a client the call then awaits redis_client.keys.          *)
CacheInvalidate(pattern) ==
    /\ requests < MaxCacheCalls
    /\ requests' = requests + 1
    /\ memory_cache' = [k \in {x \in DOMAIN memory_cache : ~Matches(pattern, x)} |->
                           memory_cache[k]]
    /\ IF redis_client = "client"
       THEN /\ Cardinality(pending_invs) < MaxPending
            /\ pending_invs' = pending_invs \cup
                   {[pattern |-> pattern, phase |-> "keys", keys |-> {}, reset |-> {}]}
            /\ last' = Event("invalidate_begin", pattern, "none", FALSE)
            /\ UNCHANGED invalidated
       ELSE /\ UNCHANGED pending_invs
            /\ InvReturns(pattern, {})
    /\ UNCHANGED <<redis_client, redis_store, cache_stats, pending_gets, pending_sets,
                   redis_probe, probe_failed, tier2_down, last_set, get_result>>

(* Variant of invalidate_pattern: an error of redis_client.keys reaches    *)
(* the caller.                                                             *)
InvKeysReplyRaises(i, reply) ==
    /\ i \in pending_invs
    /\ i.phase = "keys"
    /\ LET found == {k \in DOMAIN redis_store : RedisHas(k) /\ Matches(i.pattern, k)}
       IN  IF reply = "ok" /\ found # {} /\ redis_client = "client"
           THEN /\ pending_invs' = (pending_invs \ {i}) \cup
                       {[i EXCEPT !.phase = "delete", !.keys = found]}
                /\ last' = Event("invalidate_keys", i.pattern, "none", FALSE)
                /\ UNCHANGED invalidated
           ELSE /\ pending_invs' = pending_invs \ {i}
                /\ UNCHANGED invalidated
                /\ last' = Event("invalidate", i.pattern,
                                 IF reply = "ok" THEN "none" ELSE "Exception", FALSE)
    /\ tier2_down' = (tier2_down /\ reply # "ok")
    /\ UNCHANGED <<requests, memory_cache, redis_client, redis_store, cache_stats,
                   pending_gets, pending_sets, redis_probe, probe_failed, last_set,
                   get_result>>

(* invalidate_pattern, lines 105-109: the reply of redis_client.keys. An   *)
(* error is logged and the call returns; no key found, the call returns;   *)
(* otherwise it goes on to redis_client.delete, which fails at once        *)
(* (AttributeError, caught at line 108) when redis_client has become None. *)
InvKeysReply(i, reply) ==
    /\ i \in pending_invs
    /\ i.phase = "keys"
    /\ LET found == {k \in DOMAIN redis_store : RedisHas(k) /\ Matches(i.pattern, k)}
       IN  IF reply = "ok" /\ found # {} /\ redis_client = "client"
           THEN /\ pending_invs' = (pending_invs \ {i}) \cup
                       {[i EXCEPT !.phase = "delete", !.keys = found]}
                /\ last' = Event("invalidate_keys", i.pattern, "none", FALSE)
                /\ UNCHANGED invalidated
           ELSE /\ pending_invs' = pending_invs \ {i}
                /\ InvReturns(i.pattern, i.reset)
    /\ tier2_down' = (tier2_down /\ reply # "ok")
    /\ UNCHANGED <<requests, memory_cache, redis_client, redis_store, cache_stats,
                   pending_gets, pending_sets, redis_probe, probe_failed, last_set,
                   get_result>>

(* invalidate_pattern, lines 107-109: the reply of redis_client.delete;    *)
(* an error is logged. The call returns.                                   *)
InvDeleteReply(i, reply) ==
    /\ i \in pending_invs
    /\ i.phase = "delete"
    /\ redis_store' = IF reply = "ok"
                      THEN [k \in DOMAIN redis_store \ i.keys |-> redis_store[k]]
                      ELSE redis_store
    /\ pending_invs' = pending_invs \ {i}
    /\ InvReturns(i.pattern, i.reset)
    /\ tier2_down' = (tier2_down /\ reply # "ok")
    /\ UNCHANGED <<requests, memory_cache, redis_client, cache_stats, pending_gets,
                   pending_sets, redis_probe, probe_failed, last_set, get_result>>

(* Variant of initialize_redis: the client is kept when the ping fails.    *)
InitializeRedisDoneKeep(ok) ==
    /\ redis_probe = "pinging"
    /\ redis_probe' = "idle"
    /\ redis_client' = "client"
    /\ probe_failed' = ~ok
    /\ last' = Event("initialize_redis", "none", "none", FALSE)
    /\ UNCHANGED <<requests, memory_cache, redis_store, cache_stats, pending_gets,
                   pending_sets, pending_invs, invalidated, tier2_down, last_set,
                   get_result>>

(* initialize_redis, lines 19-30: redis_client is assigned the client made *)
(* by redis.from_url, then the call awaits ping.                           *)
InitializeRedis ==
    /\ requests < MaxCacheCalls
    /\ requests' = requests + 1
    /\ redis_probe = "idle"
    /\ redis_probe' = "pinging"
    /\ redis_client' = "client"
    /\ probe_failed' = FALSE
    /\ last' = Event("initialize_redis_begin", "none", "none", FALSE)
    /\ UNCHANGED <<memory_cache, redis_store, cache_stats, pending_gets,
                   pending_sets, pending_invs, invalidated, tier2_down, last_set,
                   get_result>>

(* initialize_redis, lines 30-34: the ping answers and the client stays,   *)
(* or it fails and redis_client is set to None.                            *)
InitializeRedisDone(ok) ==
    /\ redis_probe = "pinging"
    /\ redis_probe' = "idle"
    /\ redis_client' = IF ok THEN "client" ELSE "None"
    /\ probe_failed' = ~ok
    /\ last' = Event("initialize_redis", "none", "none", FALSE)
    /\ UNCHANGED <<requests, memory_cache, redis_store, cache_stats, pending_gets,
                   pending_sets, pending_invs, invalidated, tier2_down, last_set,
                   get_result>>

(* The cache after initialize_redis (lines 19-34), which leaves a client   *)
(* when the ping succeeds and None when it does not.                       *)
InitCache ==
    /\ InitBreakers
    /\ CacheNew
    /\ UnitNew
    /\ redis_client \in {"None", "client"}
    /\ service = ServiceNew
    /\ backend = "results"
    /\ search_result = NoSearch

CacheStep_(A) == A /\ UNCHANGED <<config, breakers, in_flight, now, probes, streak,
                                  half_streak, search_vars, unit_vars>>

(* Time passes between the calls: a Redis command is answered or given up  *)
(* within 0.1 s (lines 57-59 and 88-91), long before CacheStep seconds.    *)
CacheTick ==
    /\ pending_gets = {}
    /\ pending_sets = {}
    /\ pending_invs = {}
    /\ redis_probe = "idle"
    /\ Tick(CacheStep, MaxCacheTime)

NextCache ==
    \/ \E k \in Keys : CacheStep_(CacheGet(k))
    \/ \E r \in pending_gets, reply \in {"ok", "error"} : CacheStep_(CacheGetReply(r, reply))
    \/ \E k \in Keys, data \in Data, ttl \in Ttls : CacheStep_(CacheSet(k, data, ttl))
    \/ \E w \in pending_sets, reply \in {"ok", "error"} : CacheStep_(CacheSetReply(w, reply))
    \/ \E p \in Patterns : CacheStep_(CacheInvalidate(p))
    \/ \E i \in pending_invs, reply \in {"ok", "error"} : CacheStep_(InvKeysReply(i, reply))
    \/ \E i \in pending_invs, reply \in {"ok", "error"} : CacheStep_(InvDeleteReply(i, reply))
    \/ CacheStep_(InitializeRedis)
    \/ \E ok \in BOOLEAN : CacheStep_(InitializeRedisDone(ok))
    \/ CacheTick

SpecCache == InitCache /\ [][NextCache]_vars

---------------------------------------------------------------------------
(* UltraFastVectorService.ultra_fast_search                                *)
(* (backend/app/services/vector_service.py), as the callers reach it:      *)
(* through @circuit_breaker(...) (line 73), then @cache_result(...)        *)
(* (line 74), then the body (lines 82-113).                                *)

MaxDocs == 2           \* vectors in the index, embeddings and metadata records at most
MaxTopK == 2           \* top_k ranges over 1..MaxTopK

SearchTtl == 1800      \* cache_result("vector_search", ttl=1800)

Queries == {"q1", "q2"}

(* What the collection does with a query: it answers with documents, with  *)
(* none, it raises, or it does not answer.                                 *)
Backends == {"results", "empty", "error", "hang"}

(* The service after initialize(): _load_memory_index (lines 38-57) found  *)
(* no file or failed before its first assignment, or it assigned           *)
(* memory_index, qa_embeddings, qa_metadata and index_loaded in this order *)
(* from what the file holds, or failed between two of the assignments.     *)
ServiceStates ==
    {ServiceNew}
    \cup {[index_loaded |-> FALSE, memory_index |-> i, qa_embeddings |-> e,
           qa_metadata |-> 0] : i \in NoIndex..MaxDocs, e \in 0..MaxDocs}
    \cup {[index_loaded |-> TRUE, memory_index |-> i, qa_embeddings |-> e,
           qa_metadata |-> m] : i \in NoIndex..MaxDocs, e \in 0..MaxDocs, m \in 0..MaxDocs}

(* The documents 0..n-1 from the nearest to the query to the farthest.     *)
Ranking(q, n) == [i \in 1..n |-> IF q = "q1" THEN i - 1 ELSE n - i]

(* FAISS search(query, n) over an index of `total` vectors: n labels, the  *)
(* nearest first, -1 where the index has no more vectors.                  *)
FaissLabels(q, total, n) ==
    [i \in 1..n |-> IF i <= total THEN Ranking(q, total)[i] ELSE -1]

(* _search_memory_index, lines 115-141.                                    *)
SearchMemoryIndex(svc, q, top_k) ==
    IF svc.memory_index = NoIndex \/ svc.qa_embeddings = 0
    THEN <<>>
    ELSE SelectSeq(FaissLabels(q, svc.memory_index, Min(top_k, svc.qa_embeddings)),
                   LAMBDA idx : idx >= 0 /\ idx < svc.qa_metadata)

(* _search_chroma, lines 143-171.  chroma_client.search_similar is a plain *)
(* function (chroma_client.py lines 65-86): the call of line 151 runs the  *)
(* query to its end before wait_for is entered, and wait_for is handed the *)
(* dict it returned, which is no awaitable: TypeError, caught at line 169. *)
(* An error of the query is caught there too.  The strategy yields nothing *)
(* whenever the collection answers, and does not complete when it does not.*)
SearchChroma(bk) == [done |-> bk # "hang", result |-> <<>>]

(* _search_numpy_fallback, lines 173-210.                                  *)
SearchNumpyFallback(svc, q, top_k) ==
    IF svc.qa_embeddings = 0
    THEN <<>>
    ELSE SelectSeq(SubSeq(Ranking(q, svc.qa_embeddings), 1,
                          Min(top_k, svc.qa_embeddings)),
                   LAMBDA idx : idx < svc.qa_metadata)

(* `self.index_loaded and self.memory_index`, line 83.                     *)
HasIndex(svc) == svc.index_loaded /\ svc.memory_index # NoIndex

(* The body of ultra_fast_search, lines 82-113: the result of the index if *)
(* it has one; else the two strategies are started, _search_chroma first,  *)
(* and the first non-empty result to complete is returned, [] if none.     *)
SearchBody(svc, bk, q, top_k) ==
    LET memory == IF HasIndex(svc) THEN SearchMemoryIndex(svc, q, top_k) ELSE <<>>
        chroma == SearchChroma(bk)
        numpy == SearchNumpyFallback(svc, q, top_k)
        tried == IF HasIndex(svc) THEN {"memory"} ELSE {}
    IN  IF memory # <<>>
        THEN [done |-> TRUE, result |-> memory, invoked |-> tried]
        ELSE [done |-> chroma.done,
              result |-> IF chroma.result # <<>> THEN chroma.result ELSE numpy,
              invoked |-> tried \cup {"chroma", "numpy"}]

(* The instance the method is called on, args[0] of the wrapper.           *)
SelfRef == "self"

(* json.dumps raises TypeError for an object that is no JSON value.        *)
Serializable(x) == x # SelfRef

(* The dict made of keyword arguments given as <<name, value>> pairs in    *)
(* the order of the call.                                                  *)
DictOf(kwargs) ==
    [n \in {kwargs[i][1] : i \in DOMAIN kwargs} |->
        kwargs[CHOOSE i \in DOMAIN kwargs : kwargs[i][1] = n][2]]

(* json.dumps(data, sort_keys=True), cache.py line 37, of the dict         *)
(* {"args": args, "kwargs": kwargs}: the text lists the fields of a dict   *)
(* by name, whatever the order they were put in, and the items of a tuple  *)
(* in their order.                                                         *)
JsonDumpsSorted(args, kwargs) == <<"json", [args |-> args, kwargs |-> DictOf(kwargs)]>>

(* hashlib.md5(content.encode()).hexdigest(), line 38: one digest per      *)
(* text.                                                                   *)
Md5(text) == <<"md5", text>>

(* _generate_key(prefix, {"args": args, "kwargs": kwargs}), cache.py lines *)
(* 36-39 and 127: f"{prefix}:{digest}" with the digest of the JSON text of *)
(* the arguments, or the TypeError of json.dumps.                          *)
GenerateKey(prefix, args, kwargs) ==
    IF /\ \A i \in DOMAIN args : Serializable(args[i])
       /\ \A i \in DOMAIN kwargs : Serializable(kwargs[i][2])
    THEN [raised |-> "none", key |-> <<prefix, Md5(JsonDumpsSorted(args, kwargs))>>]
    ELSE [raised |-> "TypeError", key |-> <<>>]

(* How a search ended.                                                     *)
SearchEnded(q, top_k, outcome, value, invoked) ==
    search_result' = [query |-> q, top_k |-> top_k, outcome |-> outcome,
                      value |-> value, invoked |-> invoked]

(* vector_service.ultra_fast_search(query_embedding, top_k), as websocket  *)
(* .py line 137 calls it.  CircuitBreaker.call (lines 32-48) rejects the   *)
(* call or invokes the wrapper of cache_result (cache.py lines 125-137),   *)
(* which computes the key from (self, query_embedding, top_k) first.  The  *)
(* key computation raises before the first await, so the call runs from    *)
(* the gate to _on_failure without suspension.  Were there a key, the      *)
(* wrapper would return the entry cached under it, or run the body and     *)
(* cache what it returns.                                                  *)
SearchCall(q, top_k) ==
    LET b == BreakerOf("vector_search")
        gate == CallGate(config[b], breakers[b], now)
        opens == breakers[b].state = OPEN /\ gate.admit
        cached == GenerateKey("vector_search", <<SelfRef, q, top_k>>, <<>>)
        body == SearchBody(service, backend, q, top_k)
    IN  /\ requests < MaxRequests
        /\ requests' = requests + 1
        /\ UNCHANGED <<config, in_flight, now, probes, service, backend, unit_vars>>
        /\ UNCHANGED <<redis_client, redis_store, cache_stats, pending_gets,
                       pending_sets, last_set, get_result, inv_vars,
                       tier2_down>>
        /\ IF ~gate.admit
           THEN /\ breakers' = [breakers EXCEPT ![b] = gate.br]
                /\ SearchEnded(q, top_k, "raised", <<>>, {})
                /\ last' = Event("rejected", "vector_search", "Exception", FALSE)
                /\ UNCHANGED <<streak, half_streak, memory_cache>>
           ELSE IF cached.raised # "none"
           THEN /\ breakers[b].failure_count < MaxFailures
                /\ breakers' = [breakers EXCEPT
                       ![b] = IF Caught(config[b], cached.raised)
                              THEN OnFailure(config[b], gate.br, now) ELSE gate.br]
                /\ streak' = [streak EXCEPT ![b] = @ + 1]
                /\ half_streak' = [half_streak EXCEPT ![b] = 0]
                /\ SearchEnded(q, top_k, "raised", <<>>, {})
                /\ last' = Event("failure", "vector_search", cached.raised, opens)
                /\ UNCHANGED memory_cache
           ELSE /\ MemoryFresh(cached.key) \/ body.done
                /\ breakers' = [breakers EXCEPT ![b] = OnSuccess(config[b], gate.br)]
                /\ streak' = [streak EXCEPT ![b] = 0]
                /\ half_streak' = [half_streak EXCEPT
                       ![b] = IF gate.br.state = HALF_OPEN THEN @ + 1 ELSE @]
                /\ last' = Event("success", "vector_search", "none", opens)
                /\ IF MemoryFresh(cached.key)
                   THEN /\ SearchEnded(q, top_k, "returned",
                                       memory_cache[cached.key].data, {})
                        /\ UNCHANGED memory_cache
                   ELSE /\ SearchEnded(q, top_k, "returned", body.result, body.invoked)
                        /\ memory_cache' = Put(memory_cache, cached.key,
                               [data |-> body.result,
                                expires |-> now + Min(SearchTtl, LocalCap)])

(* The service after initialize(), the collection in any condition.        *)
InitSearch ==
    /\ InitBreakers
    /\ CacheNew
    /\ UnitNew
    /\ redis_client \in {"None", "client"}
    /\ service \in ServiceStates
    /\ backend \in Backends
    /\ search_result = NoSearch

NextSearch ==
    \/ \E q \in Queries, top_k \in 1..MaxTopK : SearchCall(q, top_k)
    \/ Tick(ClockStep, MaxServiceTime)

SpecSearch == InitSearch /\ [][NextSearch]_vars

---------------------------------------------------------------------------
(* The keys of cache_result (cache.py lines 122-139).                      *)

(* The parameters of a wrapped operation after self, as in                 *)
(* ultra_fast_search(self, query_embedding, top_k), and their values.      *)
Params == <<"query_embedding", "top_k">>
ArgValues == {"v1", "v2"}
Prefixes == {"vector_search", "embedding"}

(* The wrapper is applied to a method, whose args[0] is the instance, as   *)
(* all three uses in the services are, or to a plain coroutine function.   *)
Bindings == {"method", "function"}

ParamsFrom(n) == {Params[i] : i \in (n + 1)..Len(Params)}

KwOrders(names) ==
    {o \in [1..Cardinality(names) -> names] :
        \A i, j \in DOMAIN o : o[i] = o[j] => i = j}

(* The ways to call the operation with every parameter given once: the    *)
(* first n positionally, the others by keyword in any order.               *)
Calls ==
    UNION {{[args |-> a, kwargs |-> [i \in DOMAIN o |-> <<o[i], v[i]>>]] :
               a \in [1..n -> ArgValues],
               o \in KwOrders(ParamsFrom(n)),
               v \in [1..(Len(Params) - n) -> ArgValues]} :
           n \in 0..Len(Params)}

(* The value each parameter has in the call.                               *)
Logical(call) ==
    [p \in ParamsFrom(0) |->
        LET i == CHOOSE j \in DOMAIN Params : Params[j] = p
        IN  IF i <= Len(call.args) THEN call.args[i] ELSE DictOf(call.kwargs)[p]]

(* args as the wrapper receives them (line 125).                           *)
WrapperArgs(binding, call) ==
    IF binding = "method" THEN <<SelfRef>> \o call.args ELSE call.args

(* cache_result, line 127, applied once to two calls of one wrapped        *)
(* operation.                                                              *)
DeriveKeys(prefix, binding, a, b) ==
    /\ key_run = NoKeyRun
    /\ key_run' = [prefix |-> prefix, bound |-> binding, a |-> a, b |-> b,
                   key_a |-> GenerateKey(prefix, WrapperArgs(binding, a), a.kwargs),
                   key_b |-> GenerateKey(prefix, WrapperArgs(binding, b), b.kwargs)]
    /\ UNCHANGED <<config, breakers, in_flight, now, probes, streak, half_streak, last,
                   requests, cache_vars, search_vars, strategy_run, embed_result,
                   batch_run, memo_vars, ws_vars>>

InitKeys == InitBreakers /\ Unused

NextKeys ==
    \E prefix \in Prefixes, binding \in Bindings, a \in Calls, b \in Calls :
        DeriveKeys(prefix, binding, a, b)

SpecKeys == InitKeys /\ [][NextKeys]_vars

---------------------------------------------------------------------------
(* The search strategies with their similarities (vector_service.py lines  *)
(* 115-210).  A similarity is written in hundredths: 50 is 0.5.            *)

MaxCandidates == 3     \* vectors held by the service at most

(* Inner products and cosines of a query with the vectors held: below 0,   *)
(* within [0, 1] and above 1.                                              *)
Scores == {-50, 50, 150}

ScoreLists == UNION {[1..n -> Scores] : n \in 0..MaxCandidates}

(* list(enumerate(similarities)), line 197: <<index, similarity>> pairs.   *)
Enumerate(similarities) == [i \in DOMAIN similarities |-> <<i - 1, similarities[i]>>]

(* Variant of the sort: among equal similarities the later pair comes      *)
(* first.                                                                  *)
RECURSIVE InsertDescTiesFirst(_, _)
InsertDescTiesFirst(x, sorted) ==
    IF sorted = <<>> THEN <<x>>
    ELSE IF Head(sorted)[2] > x[2]
         THEN <<Head(sorted)>> \o InsertDescTiesFirst(x, Tail(sorted))
         ELSE <<x>> \o sorted

(* The place of a pair among pairs already sorted: after every pair whose  *)
(* similarity is not smaller.                                              *)
RECURSIVE InsertDesc(_, _)
InsertDesc(x, sorted) ==
    IF sorted = <<>> THEN <<x>>
    ELSE IF Head(sorted)[2] >= x[2]
         THEN <<Head(sorted)>> \o InsertDesc(x, Tail(sorted))
         ELSE <<x>> \o sorted

(* indexed_similarities.sort(key=lambda x: x[1], reverse=True), line 198:  *)
(* list.sort is stable, with reverse=True too.                             *)
RECURSIVE SortDesc(_)
SortDesc(pairs) ==
    IF pairs = <<>> THEN <<>>
    ELSE InsertDesc(pairs[Len(pairs)], SortDesc(SubSeq(pairs, 1, Len(pairs) - 1)))

(* The results made of <<index, similarity>> pairs: metadata[idx].copy()   *)
(* with result["similarity"] = float(similarity), lines 136-139, 202-205.  *)
ResultsOf(pairs) == [i \in DOMAIN pairs |-> [idx |-> pairs[i][1], similarity |-> pairs[i][2]]]

(* Variant of _search_numpy_fallback: the sorted pairs are not cut at      *)
(* top_k.                                                                  *)
NumpyFallbackResultsUncut(similarities, metadata, top_k) ==
    IF similarities = <<>>
    THEN <<>>
    ELSE ResultsOf(SelectSeq(SortDesc(Enumerate(similarities)),
                             LAMBDA pair : pair[1] < metadata))

(* _search_numpy_fallback, lines 173-210, with the cosines of the query    *)
(* and the vectors of qa_embeddings and the number of metadata records.    *)
NumpyFallbackResults(similarities, metadata, top_k) ==
    IF similarities = <<>>
    THEN <<>>
    ELSE LET sorted == SortDesc(Enumerate(similarities))
             top == SubSeq(sorted, 1, Min(top_k, Len(sorted)))
         IN  ResultsOf(SelectSeq(top, LAMBDA pair : pair[1] < metadata))

(* memory_index.search(query_vector, n), line 129: the n vectors of the    *)
(* index with the largest inner products, the largest first; the order     *)
(* among equal ones is the library's.                                      *)
FaissSearch(scores, n) ==
    {ranked \in [1..n -> {Enumerate(scores)[i] : i \in DOMAIN scores}] :
        /\ \A i, j \in 1..n : ranked[i][1] = ranked[j][1] => i = j
        /\ \A i, j \in 1..n : i < j => ranked[i][2] >= ranked[j][2]
        /\ \A i \in 1..n, k \in DOMAIN scores :
              (\A j \in 1..n : ranked[j][1] # k - 1) => scores[k] <= ranked[i][2]}

(* _search_memory_index, lines 115-141, given what the index returned.     *)
MemoryIndexResults(ranked, metadata) ==
    ResultsOf(SelectSeq(ranked, LAMBDA pair : pair[1] >= 0 /\ pair[1] < metadata))

(* A strategy is applied once: what it was given and what it returned.     *)
StrategyRan(strategy, seen, metadata, top_k, results) ==
    /\ strategy_run' = [strategy |-> strategy, given |-> seen, metadata |-> metadata,
                        top_k |-> top_k, results |-> results]
    /\ UNCHANGED <<config, breakers, in_flight, now, probes, streak, half_streak, last,
                   requests, cache_vars, search_vars, key_run, embed_result,
                   batch_run, memo_vars, ws_vars>>

RunMemoryIndex(scores, metadata, top_k) ==
    /\ strategy_run = NoStrategyRun
    /\ scores # <<>>
    /\ \E ranked \in FaissSearch(scores, Min(top_k, Len(scores))) :
          StrategyRan("memory", ranked, metadata, top_k,
                      MemoryIndexResults(ranked, metadata))

RunChroma(bk, top_k) ==
    /\ strategy_run = NoStrategyRun
    /\ SearchChroma(bk).done
    /\ StrategyRan("chroma", <<>>, 0, top_k, SearchChroma(bk).result)

RunNumpyFallback(similarities, metadata, top_k) ==
    /\ strategy_run = NoStrategyRun
    /\ StrategyRan("numpy", Enumerate(similarities), metadata, top_k,
                   NumpyFallbackResults(similarities, metadata, top_k))

InitStrategies == InitBreakers /\ Unused

NextStrategies ==
    \/ \E scores \in ScoreLists, metadata \in 0..MaxCandidates, top_k \in 1..MaxTopK :
          RunMemoryIndex(scores, metadata, top_k)
    \/ \E bk \in Backends, top_k \in 1..MaxTopK : RunChroma(bk, top_k)
    \/ \E similarities \in ScoreLists, metadata \in 0..MaxCandidates, top_k \in 1..MaxTopK :
          RunNumpyFallback(similarities, metadata, top_k)

SpecStrategies == InitStrategies /\ [][NextStrategies]_vars

---------------------------------------------------------------------------
(* The calls of the provider (openai_service.py lines 48-95 and 158-196).  *)

EmbeddingTtl == 7200   \* cache_result("embedding", ttl=7200)
CompletionTtl == 1800  \* cache_result("chat_completion", ttl=1800)

(* Texts to embed: empty, of white space only, and a text proper.          *)
Texts == {"", " ", "text"}

(* text.strip()                                                            *)
Strip(text) == IF text = " " THEN "" ELSE text

(* `not text or len(text.strip()) == 0`, line 63.                          *)
IsBlank(text) == text = "" \/ Strip(text) = ""

(* What the provider does with a request: it answers, it does not answer   *)
(* within the timeout of wait_for, or it answers with an API error.        *)
Providers == {"answers", "timeout", "error"}

(* The body of create_embedding_ultra_fast, lines 61-95: the text is       *)
(* validated, then the provider is asked; a timeout is raised again as     *)
(* APIConnectionError (lines 90-92), any other error as it is.             *)
EmbeddingBody(text, provider) ==
    IF IsBlank(text) THEN [raised |-> "ValueError", value |-> "None"]
    ELSE IF provider = "answers" THEN [raised |-> "none", value |-> "A"]
    ELSE IF provider = "timeout" THEN [raised |-> "APIConnectionError", value |-> "None"]
    ELSE [raised |-> "APIError", value |-> "None"]

(* The body of create_completion_ultra_fast, lines 172-196.                *)
CompletionBody(text, provider) ==
    IF provider = "answers" THEN [raised |-> "none", value |-> "A"]
    ELSE IF provider = "timeout" THEN [raised |-> "APIConnectionError", value |-> "None"]
    ELSE [raised |-> "APIError", value |-> "None"]

(* How a call of the provider ended.                                       *)
ProviderEnded(op, text, outcome, kind) ==
    embed_result' = [op |-> op, text |-> text, outcome |-> outcome, kind |-> kind]

(* A call of a wrapped operation of OpenAIService, as websocket.py line    *)
(* 157 calls create_embedding_ultra_fast(text).  CircuitBreaker.call       *)
(* (lines 32-48) rejects the call or invokes the wrapper of cache_result   *)
(* (cache.py lines 125-137), which computes the key from (self, text)      *)
(* first.  The key computation raises before the first await and before    *)
(* the body is entered, so the call runs from the gate to the except       *)
(* clause without suspension; TypeError is none of the expected            *)
(* exceptions and passes the breaker uncounted.  Were there a key, the     *)
(* wrapper would return the entry cached under it, or run the body and     *)
(* cache what it returns.                                                  *)
ProviderCall(op, prefix, ttl, text, body) ==
    LET b == BreakerOf(op)
        gate == CallGate(config[b], breakers[b], now)
        opens == breakers[b].state = OPEN /\ gate.admit
        cached == GenerateKey(prefix, <<SelfRef, text>>, <<>>)
        raised == IF cached.raised # "none" THEN cached.raised ELSE body.raised
    IN  /\ requests < MaxRequests
        /\ requests' = requests + 1
        /\ UNCHANGED <<config, in_flight, now, probes, search_vars, key_run, strategy_run,
                       batch_run, memo_vars, ws_vars>>
        /\ UNCHANGED <<redis_client, redis_store, cache_stats, pending_gets,
                       pending_sets, last_set, get_result, inv_vars, tier2_down>>
        /\ IF ~gate.admit
           THEN /\ breakers' = [breakers EXCEPT ![b] = gate.br]
                /\ ProviderEnded(op, text, "raised", "Exception")
                /\ last' = Event("rejected", op, "Exception", FALSE)
                /\ UNCHANGED <<streak, half_streak, memory_cache>>
           ELSE IF cached.raised = "none" /\ MemoryFresh(cached.key)
           THEN /\ breakers' = [breakers EXCEPT ![b] = OnSuccess(config[b], gate.br)]
                /\ streak' = [streak EXCEPT ![b] = 0]
                /\ half_streak' = [half_streak EXCEPT
                       ![b] = IF gate.br.state = HALF_OPEN THEN @ + 1 ELSE @]
                /\ ProviderEnded(op, text, "returned", "none")
                /\ last' = Event("success", op, "none", opens)
                /\ UNCHANGED memory_cache
           ELSE IF raised # "none"
           THEN /\ breakers[b].failure_count < MaxFailures
                /\ breakers' = [breakers EXCEPT
                       ![b] = IF Caught(config[b], raised)
                              THEN OnFailure(config[b], gate.br, now) ELSE gate.br]
                /\ streak' = [streak EXCEPT ![b] = IF Caught(config[b], raised)
                                                 THEN @ + 1 ELSE @]
                /\ half_streak' = [half_streak EXCEPT
                       ![b] = IF Caught(config[b], raised) THEN 0 ELSE @]
                /\ ProviderEnded(op, text, "raised", raised)
                /\ last' = Event("failure", op, raised, opens)
                /\ UNCHANGED memory_cache
           ELSE /\ breakers' = [breakers EXCEPT ![b] = OnSuccess(config[b], gate.br)]
                /\ streak' = [streak EXCEPT ![b] = 0]
                /\ half_streak' = [half_streak EXCEPT
                       ![b] = IF gate.br.state = HALF_OPEN THEN @ + 1 ELSE @]
                /\ ProviderEnded(op, text, "returned", "none")
                /\ last' = Event("success", op, "none", opens)
                /\ memory_cache' = Put(memory_cache, cached.key,
                       [data |-> body.value, expires |-> now + Min(ttl, LocalCap)])

(* openai_service.create_embedding_ultra_fast(text)                        *)
EmbedCall(text, provider) ==
    ProviderCall("embedding", "embedding", EmbeddingTtl, text,
                 EmbeddingBody(text, provider))

(* openai_service.create_completion_ultra_fast(messages)                   *)
CompleteCall(text, provider) ==
    ProviderCall("completion", "chat_completion", CompletionTtl, text,
                 CompletionBody(text, provider))

InitProvider == InitBreakers /\ Unused

NextProvider ==
    \/ \E text \in Texts, provider \in Providers : EmbedCall(text, provider)
    \/ \E text \in Texts, provider \in Providers : CompleteCall(text, provider)
    \/ Tick(ClockStep, MaxServiceTime)

SpecProvider == InitProvider /\ [][NextProvider]_vars

---------------------------------------------------------------------------
(* UltraFastOpenAIService.batch_create_embeddings (openai_service.py lines  *)
(* 97-129).  The texts are numbered 1..n; the embedding of text i is        *)
(* written i and the empty embedding [] is written 0.                       *)

(* batch_size, line 108.                                                    *)
BatchSize == 100

MaxTexts == 250        \* the texts given in one call

(* batches, line 109: the number of slices texts[i:i+batch_size] and the    *)
(* length of the j-th of them.                                              *)
NumBatches(n) == (n + BatchSize - 1) \div BatchSize
BatchLen(n, j) == Min(BatchSize, n - (j - 1) * BatchSize)

(* _process_embedding_batch (lines 131-156) of the j-th batch answered: the *)
(* embeddings of response.data, one for each text of the input in order.    *)
ProcessEmbeddingBatch(n, j) ==
    [i \in 1..BatchLen(n, j) |-> (j - 1) * BatchSize + i]

(* Lines 122-125, the entries added for the j-th batch when its result is   *)
(* an exception: `[[] for _ in range(len(batch))]`, where batch is the      *)
(* variable of the loop of lines 115-117, which that loop left at the last  *)
(* batch.                                                                   *)
EmptyEmbeddings(n, j) == [i \in 1..BatchLen(n, NumBatches(n)) |-> 0]

(* Lines 121-127 over the results of the batches j..last, in the order of   *)
(* the batches (gather keeps it).                                           *)
RECURSIVE ExtendAll(_, _, _)
ExtendAll(n, failed, j) ==
    IF j > NumBatches(n) THEN <<>>
    ELSE (IF j \in failed THEN EmptyEmbeddings(n, j) ELSE ProcessEmbeddingBatch(n, j))
         \o ExtendAll(n, failed, j + 1)

(* The list returned for n texts when the batches of `failed` raise; no     *)
(* text, no batch (lines 104-105).                                          *)
BatchEmbeddings(n, failed) == IF n = 0 THEN <<>> ELSE ExtendAll(n, failed, 1)

(* batch_create_embeddings is applied once to n texts.                      *)
BatchCreateEmbeddings(n, failed) ==
    /\ batch_run = NoBatchRun
    /\ batch_run' = [texts |-> n, failed |-> failed,
                     embeddings |-> BatchEmbeddings(n, failed), done |-> TRUE]
    /\ UNCHANGED <<config, breakers, in_flight, now, probes, streak, half_streak, last,
                   requests, cache_vars, search_vars, key_run, strategy_run,
                   embed_result, memo_vars, ws_vars>>

InitBatch == InitBreakers /\ Unused

NextBatch ==
    \E n \in 0..MaxTexts : \E failed \in SUBSET (1..NumBatches(n)) :
        BatchCreateEmbeddings(n, failed)

SpecBatch == InitBatch /\ [][NextBatch]_vars

---------------------------------------------------------------------------
(* The WebSocket endpoint and its ConnectionManager (backend/app/api/       *)
(* websocket.py lines 16-89).  A handler is the coroutine of                *)
(* websocket_endpoint for one socket; handlers[w].at is the await it is     *)
(* suspended at: "accepting" (line 22), "receiving" (line 65), "processing" *)
(* (line 73), "sending" (line 76), "reporting" (line 86), or "ended".       *)

MaxMessages == 2       \* the messages a client sends over one connection

(* What a send or an accept on a socket does: it succeeds, it raises        *)
(* WebSocketDisconnect, it raises another exception.                        *)
SocketOutcomes == {"ok", "WebSocketDisconnect", "Exception"}

(* The texts received: a JSON object, a text that json.loads rejects.       *)
Frames == {"json", "garbage"}

At(w, at) == [handlers EXCEPT ![w].at = at]

InList(list, w) == \E i \in 1..Len(list) : list[i] = w

(* list.remove(w): the first occurrence goes.                               *)
RECURSIVE ListRemove(_, _)
ListRemove(list, w) ==
    IF list = <<>> THEN <<>>
    ELSE IF Head(list) = w THEN Tail(list)
    ELSE <<Head(list)>> \o ListRemove(Tail(list), w)

(* The entry connect writes, lines 24-28.                                   *)
NewStats == [messages_sent |-> 0, messages_received |-> 0]

(* Lines 69-70 and 79-80: the counter of the client grows if it has an      *)
(* entry.                                                                   *)
Received(stats, client_id) ==
    IF client_id \in DOMAIN stats
    THEN [stats EXCEPT ![client_id].messages_received = @ + 1]
    ELSE stats
SentTo(stats, client_id) ==
    IF client_id \in DOMAIN stats
    THEN [stats EXCEPT ![client_id].messages_sent = @ + 1]
    ELSE stats

WsStep_ ==
    UNCHANGED <<config, breakers, in_flight, now, probes, streak, half_streak, last,
                requests, cache_vars, search_vars, key_run, strategy_run,
                embed_result, batch_run, memo_vars>>

(* A client connects to /ws/{client_id}: websocket_endpoint begins and      *)
(* manager.connect awaits the accept (lines 60, 22).                        *)
WebsocketEndpoint(w, client_id) ==
    /\ handlers[w].at = "none"
    /\ handlers' = [handlers EXCEPT ![w] = [at |-> "accepting", client_id |-> client_id]]
    /\ UNCHANGED <<active_connections, connection_stats>>
    /\ WsStep_

(* ConnectionManager.connect after the accept (lines 23-28), then the       *)
(* handler awaits a text (line 65).  An accept that raises ends the         *)
(* handler, line 60 being outside the try.                                  *)
Connect(w, accept) ==
    /\ handlers[w].at = "accepting"
    /\ IF accept = "ok"
       THEN /\ active_connections' = Append(active_connections, w)
            /\ connection_stats' = Put(connection_stats, handlers[w].client_id, NewStats)
            /\ handlers' = At(w, "receiving")
       ELSE /\ handlers' = At(w, "ended")
            /\ UNCHANGED <<active_connections, connection_stats>>
    /\ WsStep_

(* ConnectionManager.disconnect, lines 31-35; list.remove raises ValueError *)
(* for a socket that is not in the list, before the entry is deleted.       *)
Disconnect(w) ==
    /\ handlers' = At(w, "ended")
    /\ IF InList(active_connections, w)
       THEN /\ active_connections' = ListRemove(active_connections, w)
            /\ connection_stats' = Drop(connection_stats, handlers[w].client_id)
       ELSE UNCHANGED <<active_connections, connection_stats>>

(* The handler of `except Exception`, lines 84-89: it awaits the send of    *)
(* the error message.                                                       *)
ReportError(w) ==
    /\ handlers' = At(w, "reporting")
    /\ UNCHANGED <<active_connections, connection_stats>>

(* What an exception raised inside the try does, lines 82-84.               *)
Except(w, kind) ==
    IF kind = "WebSocketDisconnect" THEN Disconnect(w) ELSE ReportError(w)

(* A text arrives (lines 65-73): parsed, counted, and process_message is    *)
(* awaited; a text that is not JSON raises from json.loads.                 *)
ReceiveText(w, frame) ==
    /\ handlers[w].at = "receiving"
    /\ handlers[w].client_id \in DOMAIN connection_stats =>
          connection_stats[handlers[w].client_id].messages_received < MaxMessages
    /\ IF frame = "json"
       THEN /\ connection_stats' = Received(connection_stats, handlers[w].client_id)
            /\ handlers' = At(w, "processing")
            /\ UNCHANGED active_connections
       ELSE Except(w, "Exception")
    /\ WsStep_

(* The client goes away while the handler awaits a text: receive_text       *)
(* raises WebSocketDisconnect (line 65).                                    *)
ReceiveDisconnect(w) ==
    /\ handlers[w].at = "receiving"
    /\ Except(w, "WebSocketDisconnect")
    /\ WsStep_

(* process_message returns its response (lines 91-123; it catches what its  *)
(* handlers raise) and the send of the response is awaited (line 76).       *)
ProcessMessage(w) ==
    /\ handlers[w].at = "processing"
    /\ handlers' = At(w, "sending")
    /\ UNCHANGED <<active_connections, connection_stats>>
    /\ WsStep_

(* The send of the response ends (lines 76-80): counted and back to the     *)
(* receive, or the exception of the send is handled.                        *)
SendJson(w, send) ==
    /\ handlers[w].at = "sending"
    /\ IF send = "ok"
       THEN /\ connection_stats' = SentTo(connection_stats, handlers[w].client_id)
            /\ handlers' = At(w, "receiving")
            /\ UNCHANGED active_connections
       ELSE Except(w, send)
    /\ WsStep_

(* The send of the error message ends (lines 86-89): the handler returns,   *)
(* or the exception of the send leaves it.                                  *)
ErrorReported(w, send) ==
    /\ handlers[w].at = "reporting"
    /\ handlers' = At(w, "ended")
    /\ UNCHANGED <<active_connections, connection_stats>>
    /\ WsStep_

InitWebSocket == InitBreakers /\ Unused

NextWebSocket ==
    \/ \E w \in WebSockets, client_id \in ClientIds : WebsocketEndpoint(w, client_id)
    \/ \E w \in WebSockets, accept \in SocketOutcomes : Connect(w, accept)
    \/ \E w \in WebSockets, frame \in Frames : ReceiveText(w, frame)
    \/ \E w \in WebSockets : ReceiveDisconnect(w)
    \/ \E w \in WebSockets : ProcessMessage(w)
    \/ \E w \in WebSockets, send \in SocketOutcomes : SendJson(w, send)
    \/ \E w \in WebSockets, send \in SocketOutcomes : ErrorReported(w, send)

SpecWebSocket == InitWebSocket /\ [][NextWebSocket]_vars

---------------------------------------------------------------------------
(* The two decorators of ultra_fast_search, circuit_breaker(config) around  *)
(* cache_result("vector_search", ttl=1800) (vector_service.py lines 73-74), *)
(* around a coroutine function whose arguments are JSON values: called as   *)
(* search(query_embedding), the key is made of the query alone and          *)
(* json.dumps accepts it.  The cache has no Redis client (initialize_redis  *)
(* not called, or its probe failed), so get and set do not suspend and the  *)
(* call suspends only while the function runs.                              *)

(* What the wrapped function does: it returns results, it returns the empty *)
(* list, it raises.                                                         *)
FuncOutcomes == {"results", "empty", "error"}

FuncResult(outcome) == IF outcome = "results" THEN <<"doc">> ELSE <<>>

(* How a call of the wrapped function ended: by whom it was answered        *)
(* ("breaker", "cache", "func") and with what.                              *)
MemoEnded(q, outcome, value, source) ==
    memo_run' = [q |-> q, outcome |-> outcome, value |-> value, source |-> source]

MemoStep_ ==
    UNCHANGED <<config, in_flight, now, probes, streak, half_streak,
                redis_client, redis_store, pending_gets, pending_sets, last_set,
                get_result, inv_vars, tier2_down, search_vars, key_run, strategy_run,
                embed_result, batch_run, ws_vars>>

(* cache.get(key) without a client, cache.py lines 41-76: the dict after    *)
(* it, the counters after it and what it returns (hit: an entry that has    *)
(* not expired; an expired entry is deleted).                               *)
MemoryGet(key) ==
    IF MemoryFresh(key)
    THEN [hit |-> TRUE, data |-> memory_cache[key].data, cache |-> memory_cache,
          stats |-> [cache_stats EXCEPT !.total_requests = @ + 1, !.hits = @ + 1]]
    ELSE [hit |-> FALSE, data |-> <<>>, cache |-> Drop(memory_cache, key),
          stats |-> [cache_stats EXCEPT !.total_requests = @ + 1, !.misses = @ + 1]]

(* A call search(q) up to its first suspension: CircuitBreaker.call         *)
(* (circuit_breaker.py lines 32-43) rejects it or invokes the wrapper of    *)
(* cache_result (cache.py lines 125-135), which returns what the cache has  *)
(* under the key (`cached_result is not None`), the call returning through  *)
(* _on_success (line 44), or awaits the function.                           *)
MemoCall(q) ==
    LET b == BreakerOf("vector_search")
        gate == CallGate(config[b], breakers[b], now)
        opens == breakers[b].state = OPEN /\ gate.admit
        cache_key == GenerateKey("vector_search", <<q>>, <<>>).key
        cached == MemoryGet(cache_key)
    IN  /\ requests < MaxRequests
        /\ requests' = requests + 1
        /\ MemoStep_
        /\ IF ~gate.admit
           THEN /\ breakers' = [breakers EXCEPT ![b] = gate.br]
                /\ MemoEnded(q, "raised", <<>>, "breaker")
                /\ last' = Event("rejected", "vector_search", "Exception", FALSE)
                /\ UNCHANGED <<memory_cache, cache_stats, memo_pending>>
           ELSE /\ memory_cache' = cached.cache
                /\ cache_stats' = cached.stats
                /\ IF cached.hit
                   THEN /\ breakers' = [breakers EXCEPT
                               ![b] = OnSuccess(config[b], gate.br)]
                        /\ MemoEnded(q, "returned", cached.data, "cache")
                        /\ last' = Event("success", "vector_search", "none", opens)
                        /\ UNCHANGED memo_pending
                   ELSE /\ breakers' = [breakers EXCEPT ![b] = gate.br]
                        /\ memo_pending' = memo_pending \cup
                               {[id |-> requests, q |-> q, key |-> cache_key]}
                        /\ last' = Event(IF opens THEN "probe" ELSE "invoked",
                                         "vector_search", "none", opens)
                        /\ UNCHANGED memo_run

(* The function of a pending call ends: what it returns is stored under the *)
(* key, the empty list like any other result (cache.py lines 135-137; set   *)
(* lines 80-83), and the call returns through _on_success; what it raises   *)
(* goes through the except clause of CircuitBreaker.call (lines 46-48).     *)
MemoReturn(p, outcome) ==
    LET b == BreakerOf("vector_search") IN
    /\ p \in memo_pending
    /\ memo_pending' = memo_pending \ {p}
    /\ UNCHANGED <<requests, cache_stats>>
    /\ MemoStep_
    /\ IF outcome = "error"
       THEN /\ breakers' = [breakers EXCEPT
                   ![b] = IF Caught(config[b], "Exception")
                          THEN OnFailure(config[b], breakers[b], now) ELSE breakers[b]]
            /\ MemoEnded(p.q, "raised", <<>>, "func")
            /\ last' = Event("failure", "vector_search", "Exception", FALSE)
            /\ UNCHANGED memory_cache
       ELSE /\ breakers' = [breakers EXCEPT ![b] = OnSuccess(config[b], breakers[b])]
            /\ memory_cache' = Put(memory_cache, p.key,
                   [data |-> FuncResult(outcome),
                    expires |-> now + Min(SearchTtl, LocalCap)])
            /\ MemoEnded(p.q, "returned", FuncResult(outcome), "func")
            /\ last' = Event("success", "vector_search", "none", FALSE)

InitMemo == InitBreakers /\ Unused

NextMemo ==
    \/ \E q \in Queries : MemoCall(q)
    \/ \E p \in memo_pending, outcome \in FuncOutcomes : MemoReturn(p, outcome)
    \/ Tick(ClockStep, MaxServiceTime)

SpecMemo == InitMemo /\ [][NextMemo]_vars

---------------------------------------------------------------------------
(* Vocabulary of the properties.                                           *)

State(b) == breakers[b].state
Elapsed(b) == now - breakers[b].last_failure_time

(* Open with the recovery timeout not yet elapsed.                         *)
Blocked(b) == State(b) = OPEN /\ Elapsed(b) < config[b].recovery_timeout

(* The step taken is the begin of a call through b.                        *)
Begins(b) == last'.b = b /\ last'.op \in {"rejected", "invoked", "probe"}

(* The step taken is the operation of a call through b returning.          *)
Succeeds(b) == last'.b = b /\ last'.op = "success"

(* The step taken is the operation of a call through b raising.            *)
Raises(b) == last'.b = b /\ last'.op \in {"failure", "propagated"}

(* The kind raised is one of the configured classes or derives from one.   *)
Expected(b, kind) ==
    \E c \in config[b].expected_exception :
        kind = c \/ Parent(kind) = c \/ Parent(Parent(kind)) = c

Edges == {<<CLOSED, OPEN>>, <<OPEN, HALF_OPEN>>, <<HALF_OPEN, CLOSED>>,
          <<HALF_OPEN, OPEN>>}

TypeOK ==
    /\ \A b \in DOMAIN breakers :
          /\ State(b) \in CircuitState
          /\ breakers[b].failure_count \in 0..MaxFailures
          /\ breakers[b].success_count \in Nat
          /\ in_flight[b] \in 0..MaxInFlight
          /\ probes[b] \in 0..in_flight[b]
    /\ now \in Nat

---------------------------------------------------------------------------
(* C1: a call that begins while the breaker is Open and less than          *)
(* recovery_timeout has elapsed since last_failure_time raises the         *)
(* breaker-open error, does not invoke the operation (no call is added to  *)
(* those in flight) and leaves state, failure_count, success_count and     *)
(* last_failure_time as they were.                                         *)
C1_OpenCallRejected ==
    [][\A b \in DOMAIN breakers :
         (Blocked(b) /\ Begins(b)) =>
            /\ last'.op = "rejected"
            /\ breakers'[b] = breakers[b]
            /\ in_flight' = in_flight]_vars

C1_Witness ==
    \E b \in DOMAIN breakers :
        /\ last.op = "rejected" /\ last.b = b
        /\ Blocked(b)
        /\ Elapsed(b) > 0

(* C2: from Closed the breaker opens exactly at the failure_threshold-th   *)
(* consecutive counted failure: a Closed breaker has seen fewer than       *)
(* failure_threshold of them since the last success, a counted failure on  *)
(* a Closed breaker opens it iff it is the failure_threshold-th, and       *)
(* nothing else opens a Closed breaker.                                    *)
C2_OpensAtThreshold ==
    [][\A b \in DOMAIN breakers :
         /\ State(b)' = CLOSED => streak'[b] < config[b].failure_threshold
         /\ (State(b) = CLOSED /\ last'.b = b /\ last'.op = "failure") =>
               (State(b)' = OPEN <=> streak'[b] >= config[b].failure_threshold)
         /\ (State(b) = CLOSED /\ State(b)' = OPEN) =>
               /\ last'.op = "failure"
               /\ streak'[b] = config[b].failure_threshold]_vars

C2_Witness ==
    \E b \in DOMAIN breakers :
        /\ last.op = "failure" /\ last.b = b
        /\ State(b) = OPEN
        /\ config[b].failure_threshold > 1
        /\ streak[b] = config[b].failure_threshold
        /\ breakers[b].success_count = 0

(* C3: any counted failure observed while the breaker is HalfOpen moves it *)
(* to Open.                                                                *)
C3_HalfOpenFailureOpens ==
    [][\A b \in DOMAIN breakers :
         (State(b) = HALF_OPEN /\ last'.b = b /\ last'.op = "failure") =>
            State(b)' = OPEN]_vars

(* C4: the breaker moves from HalfOpen to Closed only when                 *)
(* success_threshold successes were observed in this half-open period with *)
(* no counted failure between them.                                        *)
C4_ClosesOnConsecutiveSuccesses ==
    [][\A b \in DOMAIN breakers :
         (State(b) = HALF_OPEN /\ State(b)' = CLOSED) =>
            half_streak'[b] >= config[b].success_threshold]_vars

(* C5: the breaker goes from Open to HalfOpen only in the begin of a call  *)
(* made when at least recovery_timeout has elapsed since                   *)
(* last_failure_time; that step sets success_count to 0 and invokes the    *)
(* operation; the passage of time changes no breaker.                      *)
C5_HalfOpenOnlyInCall ==
    [][/\ \A b \in DOMAIN breakers :
            (State(b) = OPEN /\ State(b)' = HALF_OPEN) =>
               /\ last' = Event("probe", b, "none", TRUE)
               /\ Elapsed(b) >= config[b].recovery_timeout
               /\ breakers'[b].success_count = 0
               /\ in_flight'[b] = in_flight[b] + 1
       /\ now' # now => breakers' = breakers]_vars

C5_Witness ==
    \E b \in DOMAIN breakers :
        /\ last = Event("probe", b, "none", TRUE)
        /\ State(b) = HALF_OPEN
        /\ breakers[b].success_count = 0
        /\ Elapsed(b) = config[b].recovery_timeout
        /\ in_flight[b] > 1

(* C6: every change of a breaker's state is Closed -> Open,                *)
(* Open -> HalfOpen, HalfOpen -> Closed or HalfOpen -> Open, with any      *)
(* number of calls in flight.                                              *)
C6_OnlyDefinedEdges ==
    [][\A b \in DOMAIN breakers :
         State(b)' # State(b) => <<State(b), State(b)'>> \in Edges]_vars

C6_Witness ==
    \E b \in DOMAIN breakers :
        /\ last.op = "success" /\ last.b = b
        /\ State(b) = CLOSED
        /\ breakers[b].success_count >= config[b].success_threshold
        /\ in_flight[b] > 0

(* C7: after the operation of a call returns, failure_count is 0, in       *)
(* whatever state the breaker is.                                          *)
C7_SuccessResetsFailures ==
    [][\A b \in DOMAIN breakers :
         Succeeds(b) => breakers'[b].failure_count = 0]_vars

C7_Witness ==
    \E b \in DOMAIN breakers :
        /\ last.op = "success" /\ last.b = b
        /\ State(b) = OPEN
        /\ streak[b] = 0
        /\ breakers[b].failure_count = 0

(* C8: when the operation raises a kind that is none of the configured     *)
(* expected_exception classes, the error goes to the caller and the        *)
(* breaker's state, failure_count, success_count and last_failure_time are *)
(* unchanged.                                                              *)
C8_UnexpectedErrorPropagates ==
    [][\A b \in DOMAIN breakers :
         (Raises(b) /\ ~Expected(b, last'.kind)) =>
            /\ last'.op = "propagated"
            /\ breakers'[b] = breakers[b]]_vars

C8_Witness ==
    \E b \in DOMAIN breakers :
        /\ last.op = "propagated" /\ last.b = b
        /\ last.kind = "ValueError"
        /\ State(b) = HALF_OPEN
        /\ breakers[b].failure_count > 0

(* C9 as stated: with success_threshold = 1, when the operation of the     *)
(* call that moved the breaker from Open to HalfOpen returns, the breaker  *)
(* is Closed.                                                              *)
C9_ProbeSuccessCloses ==
    [][\A b \in DOMAIN breakers :
         (config[b].success_threshold = 1 /\ last' = Event("success", b, "none", TRUE)) =>
            State(b)' = CLOSED]_vars

(* C9 amended: with success_threshold = 1, when the operation of the call  *)
(* that moved the breaker from Open to HalfOpen returns, the breaker is    *)
(* Closed, unless it is Open again at that moment (a counted failure of    *)
(* another call in flight re-opened it).                                   *)
C9_ProbeSuccessClosesUnlessReopened ==
    [][\A b \in DOMAIN breakers :
         (/\ config[b].success_threshold = 1
          /\ last' = Event("success", b, "none", TRUE)
          /\ State(b) # OPEN) =>
            State(b)' = CLOSED]_vars

C9_Witness ==
    \E b \in DOMAIN breakers :
        /\ config[b].success_threshold = 1
        /\ last = Event("success", b, "none", TRUE)
        /\ State(b) = CLOSED
        /\ breakers[b].success_count = 1
        /\ in_flight[b] = 0

(* C10: a step of a call of one decorated operation (begin, rejection,     *)
(* return or raise) changes neither the breaker of another operation nor   *)
(* the calls in flight on it.                                              *)
C10_BreakersIndependent ==
    [][\A op \in Operations :
         (last'.b = op /\ last'.op # "tick") =>
            \A other \in Operations \ {op} :
               /\ breakers'[BreakerOf(other)] = breakers[BreakerOf(other)]
               /\ in_flight'[BreakerOf(other)] = in_flight[BreakerOf(other)]]_vars

C10_Witness ==
    /\ last.b = "completion" /\ last.op = "failure"
    /\ breakers["completion"].failure_count = 1
    /\ breakers["embedding"].state = OPEN
    /\ breakers["vector_search"].failure_count = 1


---------------------------------------------------------------------------
(* Vocabulary of the cache properties.                                     *)

(* The step taken last is get(k) returning, the get began with s the       *)
(* latest set of k, and no set of k was made since.                        *)
GotAfter(k, s) ==
    /\ last.op = "get"
    /\ get_result.key = k
    /\ s # NoSet
    /\ get_result.seen = s
    /\ last_set[k] = s

---------------------------------------------------------------------------
(* C11: after set(key, v, ttl=T) with no later set of the key, a get(key)  *)
(* made when T seconds or more have passed since the set returns absent,   *)
(* also when an earlier get copied the entry from Redis into memory_cache. *)
C11_ExpiredNeverReturned ==
    \A k \in Keys :
        (GotAfter(k, last_set[k]) /\ get_result.at - last_set[k].at >= last_set[k].ttl)
            => get_result.value = "None"

---------------------------------------------------------------------------
---------------------------------------------------------------------------
(* Vocabulary of the search properties.                                    *)

(* The step taken last is a call of ultra_fast_search ending.              *)
Searched == last.b = "vector_search" /\ last.op \in {"rejected", "failure", "success"}

(* What the strategies yield for the query of the search that ended last.  *)
MemoryYield == SearchMemoryIndex(service, search_result.query, search_result.top_k)
ChromaYield == SearchChroma(backend).result
NumpyYield == SearchNumpyFallback(service, search_result.query, search_result.top_k)

(* The search that ended last returned value.                              *)
SearchReturned(value) == search_result.outcome = "returned" /\ search_result.value = value

---------------------------------------------------------------------------
(* C13: a search does not raise to its caller, whatever the cache and the  *)
(* breaker have become through earlier searches, and returns [] when no    *)
(* strategy yields anything.                                               *)
C13_SearchNeverRaises ==
    Searched =>
        /\ search_result.outcome = "returned"
        /\ (MemoryYield = <<>> /\ ChromaYield = <<>> /\ NumpyYield = <<>>)
              => search_result.value = <<>>

---------------------------------------------------------------------------
(* C14: with the index loaded and its search yielding at least one result, *)
(* the search returns that result and invokes neither _search_chroma nor   *)
(* _search_numpy_fallback.                                                 *)
C14_MemoryIndexWins ==
    (Searched /\ HasIndex(service) /\ MemoryYield # <<>>) =>
        /\ SearchReturned(MemoryYield)
        /\ search_result.invoked \cap {"chroma", "numpy"} = {}

---------------------------------------------------------------------------
(* C15: without the index, when exactly one of _search_chroma and          *)
(* _search_numpy_fallback yields a non-empty result, the search returns    *)
(* the result of that one.                                                 *)
C15_FallbackComplete ==
    (Searched /\ ~HasIndex(service)) =>
        /\ (ChromaYield # <<>> /\ NumpyYield = <<>>) => SearchReturned(ChromaYield)
        /\ (ChromaYield = <<>> /\ NumpyYield # <<>>) => SearchReturned(NumpyYield)

---------------------------------------------------------------------------
(* C16: an error inside one strategy counts as no result of that strategy  *)
(* and the others go on: with the collection raising and the numpy search  *)
(* yielding results the search returns them, and the search returns []     *)
(* only when every strategy it started ended without a result.             *)
C16_ErrorsDoNotAbort ==
    Searched =>
        /\ (MemoryYield = <<>> /\ backend = "error" /\ NumpyYield # <<>>)
              => SearchReturned(NumpyYield)
        /\ SearchReturned(<<>>) =>
              \A st \in search_result.invoked :
                  CASE st = "memory" -> MemoryYield = <<>>
                    [] st = "chroma" -> ChromaYield = <<>>
                    [] st = "numpy" -> NumpyYield = <<>>

---------------------------------------------------------------------------
(* C18: when the collection does not answer in time and the numpy search   *)
(* yields results, the search returns those and the timeout is counted     *)
(* against a breaker of the collection's own, no other breaker changing.   *)
C18_TimeoutIsolated ==
    [][(last'.b = "vector_search" /\ last'.op \in {"rejected", "failure", "success"}
        /\ backend = "hang" /\ ~HasIndex(service)
        /\ SearchNumpyFallback(service, search_result'.query, search_result'.top_k) # <<>>)
       => /\ search_result'.outcome = "returned"
          /\ search_result'.value =
                SearchNumpyFallback(service, search_result'.query, search_result'.top_k)
          /\ \A b \in Operations : breakers'[b] = breakers[b]]_vars

---------------------------------------------------------------------------
(* C19: a search comes to an end by returning a result or [], also when    *)
(* the collection never answers.                                           *)
C19_SearchTerminates ==
    (Searched /\ backend = "hang") =>
        \E value \in {MemoryYield, NumpyYield, <<>>} : SearchReturned(value)

---------------------------------------------------------------------------
(* C20: a search for which some strategy yields a non-empty result returns *)
(* the result of the strategy that yielded first, and what the cache keeps *)
(* for the call is that result.                                            *)
C20_WinnerFinal ==
    (Searched /\ (MemoryYield # <<>> \/ ChromaYield # <<>> \/ NumpyYield # <<>>)) =>
        /\ search_result.outcome = "returned"
        /\ search_result.value \in {MemoryYield, ChromaYield, NumpyYield} \ {<<>>}
        /\ \E k \in DOMAIN memory_cache : memory_cache[k].data = search_result.value

---------------------------------------------------------------------------
(* Vocabulary of the steps of the cache.                                   *)

(* The step taken is a call of get(k) beginning.                           *)
GetBegins(k) ==
    /\ last'.b = k
    /\ last'.op \in {"get", "get_redis"}
    /\ cache_stats'.total_requests = cache_stats.total_requests + 1

(* The step taken is the call r of get resuming from its Redis command.    *)
GetResumes(r) ==
    /\ r \in pending_gets
    /\ r \notin pending_gets'
    /\ last'.op = "get"

(* The step taken is the call w of set resuming from its Redis command.    *)
SetResumes(w) ==
    /\ w \in pending_sets
    /\ w \notin pending_sets'
    /\ last'.op = "set_redis"

Hits == cache_stats.hits
Misses == cache_stats.misses

---------------------------------------------------------------------------
(* C21: get looks into memory_cache first: a fresh entry there is returned *)
(* and counted as a hit and Redis is not asked; Redis is asked only when   *)
(* there is none.  A value Redis then gives is returned, counted as a hit  *)
(* and stored in memory_cache with at most LocalCap seconds to live; when  *)
(* neither tier has the key the miss counter goes up by one and the call   *)
(* returns None.                                                           *)
C21_GetTiers ==
    [][/\ \A k \in Keys : GetBegins(k) =>
            IF MemoryFresh(k)
            THEN /\ last'.op = "get"
                 /\ get_result'.value = memory_cache[k].data
                 /\ Hits' = Hits + 1 /\ Misses' = Misses
                 /\ pending_gets' = pending_gets
            ELSE IF last'.op = "get_redis"
            THEN Hits' = Hits /\ Misses' = Misses /\ memory_cache' = Drop(memory_cache, k)
            ELSE /\ get_result'.value = "None"
                 /\ Hits' = Hits /\ Misses' = Misses + 1
       /\ \A r \in pending_gets : GetResumes(r) =>
            /\ get_result'.key = r.key
            /\ IF get_result'.tier = "redis"
               THEN /\ RedisHas(r.key)
                    /\ get_result'.value = JsonLoads(redis_store[r.key].data)
                    /\ Hits' = Hits + 1 /\ Misses' = Misses
                    /\ memory_cache' = Put(memory_cache, r.key,
                                           [data |-> get_result'.value,
                                            expires |-> memory_cache'[r.key].expires])
                    /\ memory_cache'[r.key].expires > now
                    /\ memory_cache'[r.key].expires <= now + LocalCap
               ELSE /\ get_result'.value = "None"
                    /\ Hits' = Hits /\ Misses' = Misses + 1
                    /\ memory_cache' = memory_cache
            /\ ~RedisHas(r.key) => get_result'.tier = "none"]_vars

(* A get has returned the value of Redis, with no fresh entry in           *)
(* memory_cache when it was made.                                          *)
C21_Witness ==
    /\ last.op = "get"
    /\ get_result.tier = "redis"
    /\ get_result.value \in Data
    /\ MemoryFresh(get_result.key)

---------------------------------------------------------------------------
(* C22: set writes the entry of memory_cache, expiring min(ttl, LocalCap)  *)
(* seconds from now, in the step in which it is called, and with a client  *)
(* goes on to write Redis with the whole ttl.  When that write is done or  *)
(* has failed the call returns, and memory_cache is as it was: a failure   *)
(* changes neither tier.                                                   *)
C22_SetWritesMemoryFirst ==
    [][/\ \A k \in Keys : (last'.op = "set" /\ last'.b = k) =>
            /\ last_set'[k].at = now
            /\ memory_cache' = Put(memory_cache, k,
                   [data |-> last_set'[k].data,
                    expires |-> now + Min(last_set'[k].ttl, LocalCap)])
            /\ redis_store' = redis_store
            /\ IF redis_client = "client"
               THEN pending_sets' = pending_sets \cup
                       {[key |-> k, data |-> last_set'[k].data, ttl |-> last_set'[k].ttl]}
               ELSE pending_sets' = pending_sets
       /\ \A w \in pending_sets : SetResumes(w) =>
            /\ memory_cache' = memory_cache
            /\ last'.kind = "none"
            /\ \/ redis_store' = redis_store
               \/ redis_store' = Put(redis_store, w.key,
                      [data |-> JsonDumps(w.data), expires |-> now + w.ttl])]_vars

(* A set has returned after its write to Redis failed, and the entry it    *)
(* wrote to memory_cache is there.                                         *)
C22_Witness ==
    /\ last.op = "set_redis"
    /\ last.b \notin DOMAIN redis_store
    /\ MemoryFresh(last.b)
    /\ memory_cache[last.b].data = last_set[last.b].data


(* C23: once invalidate_pattern(pattern) has returned, a get of a key      *)
(* matching the pattern returns absent until the key is set again, gets    *)
(* running concurrently with the invalidation included.                    *)
C23_InvalidateRemoves ==
    (/\ last.op = "get"
     /\ get_result.inv
     /\ invalidated[get_result.key])
    => get_result.value = "None"


(* The step taken is the call i of invalidate_pattern resuming from a      *)
(* Redis command.                                                          *)
InvResumes(i) ==
    /\ i \in pending_invs
    /\ last'.op \in {"invalidate_keys", "invalidate"}
    /\ last'.b = i.pattern
    /\ requests' = requests

(* The operations of the cache, by the events they leave.                  *)
CacheOps == {"get", "get_redis", "set", "set_redis", "invalidate_begin",
             "invalidate_keys", "invalidate"}

(* What a cache holding memory_cache alone answers to get(k), and what it  *)
(* keeps after get(k) and after invalidate_pattern(pattern).               *)
MemoryOnlyGet(k) == IF MemoryFresh(k) THEN memory_cache[k].data ELSE "None"

MemoryOnlyAfterGet(k) == IF MemoryFresh(k) THEN memory_cache ELSE Drop(memory_cache, k)

MemoryOnlyAfterInvalidate(pattern) ==
    [k \in {x \in DOMAIN memory_cache : ~Matches(pattern, x)} |-> memory_cache[k]]

(* C24: no step of get, set or invalidate_pattern raises; and as long as   *)
(* every Redis command has failed, each step leaves memory_cache and       *)
(* returns what a cache of memory_cache alone would: get returns the fresh *)
(* entry of memory_cache or None, set stores for min(ttl, LocalCap)        *)
(* seconds, invalidate_pattern removes the matching keys, and the failed   *)
(* Redis command changes nothing.                                          *)
C24_Tier2DegradesSilently ==
    [][ /\ last'.op \in CacheOps => last'.kind = "none"
        /\ tier2_down' =>
             /\ redis_store' = redis_store
             /\ \A k \in Keys : GetBegins(k) =>
                   /\ memory_cache' = MemoryOnlyAfterGet(k)
                   /\ last'.op = "get" => get_result'.value = MemoryOnlyGet(k)
                   /\ last'.op = "get_redis" => MemoryOnlyGet(k) = "None"
             /\ \A r \in pending_gets : GetResumes(r) =>
                   /\ get_result'.value = "None"
                   /\ Misses' = Misses + 1
                   /\ memory_cache' = memory_cache
             /\ \A k \in Keys : (last'.op = "set" /\ last'.b = k /\ requests' # requests) =>
                   memory_cache' = Put(memory_cache, k,
                                       [data |-> last_set'[k].data,
                                        expires |-> now + Min(last_set'[k].ttl, LocalCap)])
             /\ \A w \in pending_sets : SetResumes(w) => memory_cache' = memory_cache
             /\ \A p \in Patterns :
                   (/\ last'.op \in {"invalidate_begin", "invalidate"}
                    /\ last'.b = p
                    /\ requests' # requests) =>
                   memory_cache' = MemoryOnlyAfterInvalidate(p)
             /\ \A i \in pending_invs : InvResumes(i) =>
                   /\ memory_cache' = memory_cache
                   /\ last'.op = "invalidate"
      ]_vars

(* Redis has failed on every command: a set, a get that asked Redis and    *)
(* an invalidate_pattern have all ended without a reply from it.           *)
C24_Witness ==
    /\ tier2_down
    /\ redis_client = "client"
    /\ last.op = "invalidate"
    /\ last_set["k1"] # NoSet
    /\ get_result.key = "k1"
    /\ get_result.tier = "none"
    /\ cache_stats.misses >= 1
    /\ pending_sets = {}
    /\ requests >= 3


(* The Redis commands awaited by calls of invalidate_pattern.              *)
InvCommands(invs) == {<<i.pattern, i.phase>> : i \in invs}

(* C29: after initialize_redis has ended with a failed probe, and until it *)
(* is run again, redis_client is None and no step of get, set or           *)
(* invalidate_pattern sends a command to Redis.                            *)
C29_FailedProbeDisablesTier2 ==
    [][ (probe_failed /\ probe_failed') =>
            /\ redis_client = "None"
            /\ redis_client' = "None"
            /\ pending_gets' \subseteq pending_gets
            /\ pending_sets' \subseteq pending_sets
            /\ InvCommands(pending_invs') \subseteq InvCommands(pending_invs)
      ]_vars

(* A set called after the failed probe has returned without a command to   *)
(* Redis, which still holds an older value of the key.                     *)
C29_Witness ==
    /\ probe_failed
    /\ last.op = "set"
    /\ pending_sets = {}
    /\ RedisHas(last.b)
    /\ redis_store[last.b].data # JsonDumps(last_set[last.b].data)
    /\ MemoryFresh(last.b)


(* C25: two calls of an operation wrapped by cache_result that give its    *)
(* parameters the same values are given the same key, whatever the order   *)
(* of the keyword arguments and whichever are passed by position.          *)
C25_SameArgumentsSameKey ==
    (/\ key_run # NoKeyRun
     /\ Logical(key_run.a) = Logical(key_run.b))
    => /\ key_run.key_a.raised = "none"
       /\ key_run.key_b.raised = "none"
       /\ key_run.key_a.key = key_run.key_b.key


(* The place of a result among the candidates the strategy was given.      *)
SeenAt(result) ==
    CHOOSE i \in DOMAIN strategy_run.given : strategy_run.given[i][1] = result.idx

(* C26: every result a strategy returns has a similarity within [0, 1].    *)
C26_SimilarityInRange ==
    \A i \in DOMAIN strategy_run.results :
        /\ strategy_run.results[i].similarity >= 0
        /\ strategy_run.results[i].similarity <= 100

(* C27: the results of a strategy are in descending order of similarity,   *)
(* and results of equal similarity are in the order the strategy first saw *)
(* them, for every set of candidates and every top_k.                      *)
C27_SortedStable ==
    \A i, j \in DOMAIN strategy_run.results :
        i < j =>
           LET ri == strategy_run.results[i]
               rj == strategy_run.results[j]
           IN  /\ ri.similarity >= rj.similarity
               /\ ri.similarity = rj.similarity => SeenAt(ri) < SeenAt(rj)

(* The numpy fallback was given three vectors, the first two equally near  *)
(* and the last the nearest: it returned the last, then the first.         *)
C27_Witness ==
    /\ strategy_run.strategy = "numpy"
    /\ Len(strategy_run.given) = 3
    /\ strategy_run.given[1][2] = strategy_run.given[2][2]
    /\ strategy_run.given[3][2] > strategy_run.given[1][2]
    /\ Len(strategy_run.results) = 2
    /\ strategy_run.results[1].idx = 2
    /\ strategy_run.results[2].idx = 0


(* C28: create_embedding_ultra_fast called with an empty text or one of    *)
(* white space only ends with the validation error, whatever the cache     *)
(* holds and whatever state the breaker is in.                             *)
C28_ValidationErrorSurfaces ==
    (embed_result.op = "embedding" /\ IsBlank(embed_result.text))
    => /\ embed_result.outcome = "raised"
       /\ embed_result.kind = "ValueError"


C34_CountersBounded ==
    \A b \in DOMAIN breakers :
        /\ State(b) = CLOSED => breakers[b].failure_count < config[b].failure_threshold
        /\ breakers[b].success_count >= 0
        /\ breakers[b].success_count <= config[b].success_threshold


(* A breaker that closed again after success_threshold successes and has   *)
(* since counted one failure less than failure_threshold.                  *)
C34_Witness ==
    \E b \in DOMAIN breakers :
        /\ State(b) = CLOSED
        /\ breakers[b].success_count = config[b].success_threshold
        /\ breakers[b].failure_count = config[b].failure_threshold - 1
        /\ breakers[b].failure_count >= 1
        /\ last.op = "failure"


C36_MemoryMissFallsBack ==
    (/\ last.b = "vector_search"
     /\ last.op \in {"failure", "success"}
     /\ HasIndex(service)
     /\ MemoryYield = <<>>
     /\ backend # "hang")
    => /\ search_result.outcome = "returned"
       /\ search_result.invoked = {"memory", "chroma", "numpy"}

BatchOf(i) == (i - 1) \div BatchSize + 1

C38_OneEntryPerText ==
    batch_run.done =>
        /\ Len(batch_run.embeddings) = batch_run.texts
        /\ \A i \in 1..Len(batch_run.embeddings) :
              batch_run.embeddings[i] =
                  (IF BatchOf(i) \in batch_run.failed THEN 0 ELSE i)


(* C39: a connection whose handler has ended, for whatever reason, is not   *)
(* in active_connections, and every connection in active_connections has a *)
(* connection_stats entry for its client_id, also when two connections      *)
(* share a client_id.                                                       *)
C39_ManagerConsistent ==
    \A w \in WebSockets :
        /\ handlers[w].at = "ended" => ~InList(active_connections, w)
        /\ InList(active_connections, w) =>
              handlers[w].client_id \in DOMAIN connection_stats


=========================================================================
